---- MODULE Spec2Model ----
(***************************************************************************)
(* The feature backlog of autocoder (src/mcp_server/feature_mcp.py over    *)
(* the SQLite schema of src/api/database.py) as a state machine.           *)
(*                                                                         *)
(* Every agent runs its own MCP server process against the same SQLite     *)
(* file.  A tool call is a SELECT (no transaction is open while reading:   *)
(* the SQLite dialect drops FOR UPDATE and the driver begins a transaction *)
(* only before the first write), then in-memory attribute assignments,     *)
(* then session.commit(), which flushes one UPDATE/INSERT/DELETE by        *)
(* primary key.  Each handler is an operator from the table it reads to    *)
(* the unit of work it hands to commit (or to its early return); a call    *)
(* either runs to its return in one step, or stops between its reads and   *)
(* its commit while other processes run theirs.                            *)
(***************************************************************************)
EXTENDS Integers, Sequences, FiniteSets, TLC

MaxId == 2          \* ids a store hands out in a checked run
MaxPriority == 3    \* largest priority a checked run computes
MaxBatch == 2       \* longest batch passed to feature_create_bulk
MaxInFlight == 1    \* calls that may sit between their reads and their commit at once
MaxBoosts == 0      \* bug boosts a checked run stacks below 1 .. MaxPriority
MaxSteps == 2       \* longest steps list of a feature
MaxClock == 2       \* readings of datetime.utcnow() a checked run tells apart
MaxLegacy == 1      \* features of a store that was migrated to step_progress
MaxScenario == 3    \* items of the batch a statistics run creates
MaxText == 1        \* characters of a payload's text
MaxSends == 2       \* send_message calls of a checked run
MaxLines == 2       \* lines written to the agent's stdin
MaxThreads == 2     \* listener threads alive at once
MaxCallbacks == 2   \* callbacks registered in a checked run
MaxPids == 3        \* processes of a worker's tree, the worker included
MaxEmitted == 2     \* lines a worker writes to its stdout in a checked run
MaxSessions == 3    \* AddFeaturesSession objects made in a checked run

BugBoost == 500     \* priority = base_priority - 500 for type "bug"

Agents == {"a", "b"}    \* agent ids; each agent's MCP server is one process
NoAgent == ""           \* agent_id argument left at its default
Null == "null"          \* SQL NULL in assigned_agent_id
Types == {"feature", "bug"}
Labels == {Null, "wave"}   \* label argument of feature_create_bulk
NoTime == 0             \* SQL NULL in started_at / completed_at

VARIABLES
    features,   \* table features: id -> row
    pc,         \* per process: "idle" or "flush" (between its reads and its commit)
    pend,       \* per process: the call in flight and the unit of work it will flush
    returned,   \* one-call scenarios: what the call of each process returned
    step_progress,  \* table step_progress: <<feature_id, step_index>> -> row
    clock,      \* datetime.utcnow()
    running,    \* AgentCommunicator.running
    callbacks,  \* AgentCommunicator.callbacks: message type -> list of callbacks
    listeners,  \* the threads started on _listen_stdin: where each is
    stdin,      \* the lines written to the agent's stdin so far
    offset,     \* how many of them readline has returned
    eof,        \* the other end closed the stream
    invoked,    \* the calls of callbacks, in the order they were made
    stdout,     \* the characters written to the agent's stdout
    senders,    \* per caller of send_message: where its print is
    status,     \* supervisor, per worker: its lifecycle state
    process,    \* supervisor, per worker: how many processes it has
    result,     \* supervisor, per worker: what its last call returned
    tables,     \* the tables of the SQLite file (its schema)
    dirs,       \* the directories that exist
    runner,     \* per worker: where the main() of its runner process is
    procs,      \* the process table of the host: pid -> parent and state
    killer,     \* the request to /api/processes/kill or /kill-all being served
    sessions,   \* _sessions: project name -> the AddFeaturesSession registered for it
    objects,    \* the AddFeaturesSession objects made so far
    cleanup,    \* cleanup_all_add_features_sessions: the sessions it has yet to close
    emitted,    \* the lines a worker has written to its stdout
    consumed,   \* how many of them the supervisor's reader has taken
    registered, \* supervisor: message type or "output" -> list of callbacks
    dispatched  \* the calls of supervisor callbacks, in the order they were made

store == <<features, pc, pend, returned, step_progress, clock>>
channel == <<running, callbacks, listeners, stdin, offset, eof, invoked, stdout, senders>>
supervision == <<status, process, result>>
schema == <<tables>>
entry == <<dirs, runner>>
tree == <<procs, killer>>
registry == <<sessions, objects, cleanup>>
inbound == <<emitted, consumed, registered, dispatched>>
server == <<schema, entry, tree, registry, inbound>>
vars == <<store, channel, supervision, server>>

Ids == 1 .. MaxId

NoRet == [op |-> "", kind |-> "none", id |-> 0]
NoWork == [kind |-> "none", res |-> "none", id |-> 0, set |-> <<>>, rows |-> <<>>]
NoPend == [op |-> "", work |-> NoWork]

Max(S) == CHOOSE x \in S : \A y \in S : y <= x

----------------------------------------------------------------------------
(* Queries and the session's unit of work *)

\* ORDER BY priority ASC, id ASC
Before(f, i, j) ==
    \/ f[i].priority < f[j].priority
    \/ f[i].priority = f[j].priority /\ i < j

RECURSIVE OrderBy(_, _)
OrderBy(f, S) ==
    IF S = {} THEN <<>>
    ELSE LET h == CHOOSE i \in S : \A j \in S \ {i} : Before(f, i, j)
         IN  <<h>> \o OrderBy(f, S \ {h})

\* .first(): the id of the first row, 0 for None
First(s) == IF s = <<>> THEN 0 ELSE Head(s)

\* session.query(Feature.priority).order_by(Feature.priority.desc()).first()
NextPriority(f) ==
    IF DOMAIN f = {} THEN 1 ELSE Max({f[i].priority : i \in DOMAIN f}) + 1

\* SQLite rowid of an INSERT into a table with INTEGER PRIMARY KEY
NextId(f) == IF DOMAIN f = {} THEN 1 ELSE Max(DOMAIN f) + 1

\* Feature(priority=..., steps=..., passes=False, label=...): in_progress and
\* assigned_agent_id default.  steps is the length of the steps list.
Row(priority, steps, label) ==
    [priority |-> priority, passes |-> FALSE, in_progress |-> FALSE,
     assigned_agent_id |-> Null, steps |-> steps, label |-> label]

\* The attributes an assignment really changes: the session flushes only those
Dirty(row, assign) ==
    LET cols == {c \in DOMAIN assign : assign[c] # row[c]}
    IN  [c \in cols |-> assign[c]]

\* UPDATE features SET ... WHERE id = :id
Apply(row, set) == [c \in DOMAIN row |-> IF c \in DOMAIN set THEN set[c] ELSE row[c]]

\* return json.dumps({"error": ...}) before anything is assigned
Returns(kind, id) == [NoWork EXCEPT !.kind = "return", !.res = kind, !.id = id]

\* attribute assignments on the loaded row f[id], then session.commit()
Updates(f, id, assign) ==
    [NoWork EXCEPT !.kind = "update", !.id = id, !.set = Dirty(f[id], assign)]

\* session.add(db_feature) for each row, then session.commit()
Inserts(rows) == [NoWork EXCEPT !.kind = "insert", !.rows = rows]

\* session.delete(feature), then session.commit()
Deletes(id) == [NoWork EXCEPT !.kind = "delete", !.id = id]

----------------------------------------------------------------------------
(* Handlers: from the table read to the unit of work *)

\* feature_get_next; agent_id is the argument, else AGENT_ID of the process
\* variant of GetNextQuery: the owner filter applied to every call
GetNextQueryFiltered(f, agent_id) ==
    {i \in DOMAIN f :
        /\ ~f[i].passes
        /\ f[i].assigned_agent_id \in {Null, agent_id}}

GetNextQuery(f, agent_id) ==
    {i \in DOMAIN f :
        /\ ~f[i].passes
        /\ agent_id # NoAgent => f[i].assigned_agent_id \in {Null, agent_id}}

\* variant of feature_get_next: the auto-claim not conditioned on an agent id
feature_get_next_claiming(f, agent_id) ==
    LET feature == First(OrderBy(f, GetNextQuery(f, agent_id)))
    IN  IF feature = 0 THEN Returns("empty", 0)
        ELSE IF ~f[feature].in_progress
             THEN Updates(f, feature, [in_progress |-> TRUE, assigned_agent_id |-> agent_id])
             ELSE Returns("ok", feature)

feature_get_next(f, agent_id) ==
    LET feature == First(OrderBy(f, GetNextQuery(f, agent_id)))
    IN  IF feature = 0 THEN Returns("empty", 0)
        ELSE IF agent_id # NoAgent /\ ~f[feature].in_progress
             THEN Updates(f, feature, [in_progress |-> TRUE, assigned_agent_id |-> agent_id])
             ELSE Returns("ok", feature)

\* variant of feature_mark_passing: the claim is given up, passes is left
feature_mark_passing_released(f, feature_id) ==
    IF feature_id \notin DOMAIN f THEN Returns("not_found", feature_id)
    ELSE Updates(f, feature_id, [in_progress |-> FALSE, assigned_agent_id |-> Null])

\* variant of feature_mark_passing: the owner is kept
feature_mark_passing_owned(f, feature_id) ==
    IF feature_id \notin DOMAIN f THEN Returns("not_found", feature_id)
    ELSE Updates(f, feature_id, [passes |-> TRUE, in_progress |-> FALSE])

feature_mark_passing(f, feature_id) ==
    IF feature_id \notin DOMAIN f THEN Returns("not_found", feature_id)
    ELSE Updates(f, feature_id,
                 [passes |-> TRUE, in_progress |-> FALSE, assigned_agent_id |-> Null])

\* variant of feature_skip: the item takes the largest priority in the table
feature_skip_to_max(f, feature_id) ==
    IF feature_id \notin DOMAIN f THEN Returns("not_found", feature_id)
    ELSE IF f[feature_id].passes THEN Returns("conflict", feature_id)
         ELSE Updates(f, feature_id, [priority |-> NextPriority(f) - 1,
                                      in_progress |-> FALSE])

feature_skip(f, feature_id) ==
    IF feature_id \notin DOMAIN f THEN Returns("not_found", feature_id)
    ELSE IF f[feature_id].passes THEN Returns("conflict", feature_id)
         ELSE Updates(f, feature_id,
                      [priority |-> NextPriority(f), in_progress |-> FALSE])

\* feature_mark_in_progress: "already passing", "already in-progress by agent ..."
\* variant of MarkInProgressConflict: no test of passes
MarkInProgressConflictOwnerOnly(row, agent_id) ==
    /\ row.in_progress
    /\ row.assigned_agent_id # Null
    /\ agent_id # NoAgent
    /\ row.assigned_agent_id # agent_id

MarkInProgressConflict(row, agent_id) ==
    \/ row.passes
    \/ /\ row.in_progress
       /\ row.assigned_agent_id # Null
       /\ agent_id # NoAgent
       /\ row.assigned_agent_id # agent_id

feature_mark_in_progress(f, feature_id, agent_id) ==
    IF feature_id \notin DOMAIN f THEN Returns("not_found", feature_id)
    ELSE IF MarkInProgressConflict(f[feature_id], agent_id)
         THEN Returns("conflict", feature_id)
         ELSE Updates(f, feature_id,
                      IF agent_id # NoAgent
                      THEN [in_progress |-> TRUE, assigned_agent_id |-> agent_id]
                      ELSE [in_progress |-> TRUE])

feature_clear_in_progress(f, feature_id) ==
    IF feature_id \notin DOMAIN f THEN Returns("not_found", feature_id)
    ELSE Updates(f, feature_id, [in_progress |-> FALSE, assigned_agent_id |-> Null])

\* feature_claim_next
\* variant of ClaimNextQuery: no test of in_progress
ClaimNextQueryByOwner(f, agent_id) ==
    {i \in DOMAIN f :
        /\ ~f[i].passes
        /\ f[i].assigned_agent_id \in {Null, agent_id}}

ClaimNextQuery(f, agent_id) ==
    {i \in DOMAIN f :
        /\ ~f[i].passes
        /\ \/ ~f[i].in_progress /\ f[i].assigned_agent_id = Null
           \/ f[i].assigned_agent_id = agent_id}

feature_claim_next(f, agent_id) ==
    LET feature == First(OrderBy(f, ClaimNextQuery(f, agent_id)))
    IN  IF feature = 0 THEN Returns("not_available", 0)
        ELSE Updates(f, feature, [in_progress |-> TRUE, assigned_agent_id |-> agent_id])

\* feature_release: "Feature is assigned to agent ..., not ..."
\* variant of ReleaseForbidden: the owner compared whatever was passed
ReleaseForbiddenStrict(row, agent_id) ==
    /\ row.assigned_agent_id # Null
    /\ row.assigned_agent_id # agent_id

ReleaseForbidden(row, agent_id) ==
    /\ agent_id # NoAgent
    /\ row.assigned_agent_id # Null
    /\ row.assigned_agent_id # agent_id

feature_release(f, feature_id, agent_id) ==
    IF feature_id \notin DOMAIN f THEN Returns("not_found", feature_id)
    ELSE IF ReleaseForbidden(f[feature_id], agent_id)
         THEN Returns("forbidden", feature_id)
         ELSE Updates(f, feature_id, [in_progress |-> FALSE, assigned_agent_id |-> Null])

\* a feature_data dict of a batch: its type, whether it carries category,
\* name, description and steps, and the length of its steps
Items == [type : Types, valid : BOOLEAN, steps : 1 .. MaxSteps]

\* priority = base_priority - 500 for a bug, base_priority otherwise
\* variant of BoostedPriority: no boost
BoostedPriorityFlat(base_priority, type) == base_priority

BoostedPriority(base_priority, type) ==
    IF type = "bug" THEN base_priority - BugBoost ELSE base_priority

\* the loop of feature_create_bulk from the k-th item (i = k - 1) on, added
\* being the Feature objects already added to the session: an item without
\* its required fields returns the error with nothing committed, the end of
\* the batch commits what was added
RECURSIVE NewRows(_, _, _, _, _)
NewRows(start_priority, batch, label, k, added) ==
    IF k > Len(batch) THEN Inserts(added)
    ELSE IF ~batch[k].valid
         THEN [Returns("error", k - 1) EXCEPT !.rows = added]
         ELSE NewRows(start_priority, batch, label, k + 1,
                      Append(added, Row(BoostedPriority(start_priority + (k - 1),
                                                        batch[k].type),
                                        batch[k].steps, label)))

feature_create_bulk(f, batch, label) ==
    NewRows(NextPriority(f), batch, label, 1, <<>>)

feature_create(f, type, steps) ==
    Inserts(<<Row(BoostedPriority(NextPriority(f), type), steps, Null)>>)

feature_delete(f, feature_id) ==
    IF feature_id \notin DOMAIN f THEN Returns("not_found", feature_id)
    ELSE Deletes(feature_id)

----------------------------------------------------------------------------
(* session.commit(), session.refresh(), return *)

\* variant of Flushed: what was added to the session is written whether or
\* not the call reached its commit
FlushedAdded(f, w) ==
    IF w.kind = "update"
    THEN IF w.id \in DOMAIN f THEN [f EXCEPT ![w.id] = Apply(@, w.set)] ELSE f
    ELSE IF w.kind = "delete"
         THEN [i \in DOMAIN f \ {w.id} |-> f[i]]
         ELSE LET base == NextId(f) - 1
              IN  [i \in DOMAIN f \cup (base + 1 .. base + Len(w.rows)) |->
                      IF i \in DOMAIN f THEN f[i] ELSE w.rows[i - base]]

\* The table after the flush.  UPDATE and DELETE go by primary key; an INSERT
\* takes the rowid after the largest one in the table.
Flushed(f, w) ==
    IF w.kind = "update"
    THEN IF w.id \in DOMAIN f THEN [f EXCEPT ![w.id] = Apply(@, w.set)] ELSE f
    ELSE IF w.kind = "insert"
         THEN LET base == NextId(f) - 1
              IN  [i \in DOMAIN f \cup (base + 1 .. base + Len(w.rows)) |->
                      IF i \in DOMAIN f THEN f[i] ELSE w.rows[i - base]]
         ELSE IF w.kind = "delete"
              THEN [i \in DOMAIN f \ {w.id} |-> f[i]]
              ELSE f

\* What the caller gets from a call whose unit of work w meets table f: the
\* early return, or the return after commit and refresh.  An UPDATE (or the
\* refresh) of a row that is gone raises; a DELETE of one only warns.
\* feature_create returns the new row, feature_create_bulk the created count
\* (carried in the id field).
Outcome(f, op, w) ==
    IF w.kind = "return" THEN [op |-> op, kind |-> w.res, id |-> w.id]
    ELSE IF w.kind = "update"
         THEN [op |-> op, kind |-> IF w.id \in DOMAIN f THEN "ok" ELSE "error", id |-> w.id]
         ELSE IF w.kind = "insert"
              THEN [op |-> op, kind |-> "ok",
                    id |-> IF op = "create" THEN NextId(f) ELSE Len(w.rows)]
              ELSE [op |-> op, kind |-> "ok", id |-> w.id]

\* the checked run stays within its bounds: a priority lies in 1 .. MaxPriority
\* or that range lowered by up to MaxBoosts boosts
InWindow(priority) ==
    \E k \in 0 .. MaxBoosts :
        /\ 1 - k * BugBoost <= priority
        /\ priority <= MaxPriority - k * BugBoost

WithinBounds(f, w) ==
    /\ w.kind = "update" /\ "priority" \in DOMAIN w.set => InWindow(w.set.priority)
    /\ w.kind = "insert" =>
         /\ \A k \in 1 .. Len(w.rows) : InWindow(w.rows[k].priority)
         /\ NextId(f) + Len(w.rows) - 1 <= MaxId

InFlight == Cardinality({p \in Agents : pc[p] = "flush"})

\* return json.dumps(...); finally: session.close().  A one-call scenario
\* (watch) keeps what the call returned.
Return(p, reply, watch) ==
    /\ pc' = [pc EXCEPT ![p] = "idle"]
    /\ pend' = [pend EXCEPT ![p] = NoPend]
    /\ returned' = IF watch THEN [returned EXCEPT ![p] = reply] ELSE returned
    /\ UNCHANGED <<step_progress, clock, channel, supervision, server>>

\* the reads and the assignments are done; the commit has not started
Stage(p, op, w) ==
    /\ InFlight < MaxInFlight
    /\ WithinBounds(features, w)
    /\ pc' = [pc EXCEPT ![p] = "flush"]
    /\ pend' = [pend EXCEPT ![p] = [op |-> op, work |-> w]]
    /\ UNCHANGED <<features, returned, step_progress, clock, channel, supervision, server>>

Finish(p, op, w, watch) ==
    /\ WithinBounds(features, w)
    /\ features' = Flushed(features, w)
    /\ Return(p, Outcome(features, op, w), watch)

\* one tool call of process p whose handler produced w from the table
Run(p, op, w, watch) ==
    /\ pc[p] = "idle"
    /\ IF w.kind = "return"
       THEN UNCHANGED features /\ Return(p, Outcome(features, op, w), watch)
       ELSE Stage(p, op, w) \/ Finish(p, op, w, watch)

Tool(p, op, w) == Run(p, op, w, FALSE)

\* the commit of a call that stopped before it
Commit(p) ==
    /\ pc[p] = "flush"
    /\ Finish(p, pend[p].op, pend[p].work, FALSE)

FeatureGetNext(p, agent_id) == Tool(p, "get_next", feature_get_next(features, agent_id))

FeatureClaimNext(p, agent_id) == Tool(p, "claim_next", feature_claim_next(features, agent_id))

FeatureMarkInProgress(p, feature_id, agent_id) ==
    Tool(p, "mark_in_progress", feature_mark_in_progress(features, feature_id, agent_id))

FeatureClearInProgress(p, feature_id) ==
    Tool(p, "clear_in_progress", feature_clear_in_progress(features, feature_id))

FeatureRelease(p, feature_id, agent_id) ==
    Tool(p, "release", feature_release(features, feature_id, agent_id))

FeatureMarkPassing(p, feature_id) ==
    Tool(p, "mark_passing", feature_mark_passing(features, feature_id))

FeatureSkip(p, feature_id) == Tool(p, "skip", feature_skip(features, feature_id))

FeatureCreateBulk(p, batch, label) ==
    Tool(p, "create_bulk", feature_create_bulk(features, batch, label))

FeatureCreate(p, type, steps) == Tool(p, "create", feature_create(features, type, steps))

FeatureDelete(p, feature_id) == Tool(p, "delete", feature_delete(features, feature_id))

\* the process of agent p is stopped or killed between the reads and the
\* commit of its call: the session is never committed
Stop(p) ==
    /\ pc[p] = "flush"
    /\ pc' = [pc EXCEPT ![p] = "idle"]
    /\ pend' = [pend EXCEPT ![p] = NoPend]
    /\ UNCHANGED <<features, returned, step_progress, clock, channel, supervision, server>>

----------------------------------------------------------------------------
(* The store under the tool calls of all agents *)

\* an empty step_progress table
NoSteps == [key \in {} |-> NoTime]

\* JSON values: a string and an object (its members in order)
Str(s) == [tag |-> "str", s |-> s, fields |-> <<>>]
Obj(fields) == [tag |-> "obj", s |-> <<>>, fields |-> fields]

\* the threads that call send_message, and one that is not in a call
Callers == {"main", "worker"}
Quiet == [pc |-> "idle", type |-> "", payload |-> Obj(<<>>), json |-> <<>>]

\* the threads start() creates, and one that was not created
Listeners == 1 .. MaxThreads
NoListener == [pc |-> "none", line |-> 0, type |-> "", k |-> 0]

\* the workers of the supervisor, and a worker no call was made on
Workers == {"w1", "w2"}
NoResult == [op |-> "", value |-> ""]

\* no worker was started
Unsupervised ==
    /\ status = [w \in Workers |-> "idle"]
    /\ process = [w \in Workers |-> 0]
    /\ result = [w \in Workers |-> NoResult]

\* AgentCommunicator.__init__, nothing written or read yet
Constructed ==
    /\ running = FALSE
    /\ callbacks = [t \in {"user_message", "command", "ping"} |-> <<>>]
    /\ listeners = [i \in Listeners |-> NoListener]
    /\ stdin = <<>>
    /\ offset = 0
    /\ eof = FALSE
    /\ invoked = <<>>
    /\ stdout = <<>>
    /\ senders = [c \in Callers |-> Quiet]

\* the directories a runner is pointed at: the main project directory and
\* the worktree of each worker
Dirs == {"project"} \cup Workers

\* a runner that was not spawned
NoRunner == [pc |-> "none", started |-> FALSE, cause |-> "", code |-> 0]

\* no runner process yet, every directory in place
Unspawned ==
    /\ dirs = Dirs
    /\ runner = [w \in Workers |-> NoRunner]

\* process ids; the worker (an agent process by its command line) has the
\* first one, pid 0 stands for a parent outside the tree
Pids == 1 .. MaxPids
Worker == 1
NoProc == [parent |-> 0, state |-> "none"]
NoKill == [op |-> "", pc |-> "idle", pid |-> 0, children |-> {}, response |-> ""]

\* a host on which the worker runs and no kill request is being served
Hosted ==
    /\ procs = [p \in Pids |-> IF p = Worker THEN [parent |-> 0, state |-> "running"]
                                ELSE NoProc]
    /\ killer = NoKill

\* projects with an add-features chat, and the session objects by the order
\* of their creation (0: no session)
Projects == {"p1", "p2"}
SessionIds == 1 .. MaxSessions
NoSession == 0

\* an AddFeaturesSession that was not made yet
Unmade == [project |-> "", pc |-> "unmade", client |-> FALSE, client_entered |-> FALSE,
           open |-> FALSE, exiting |-> FALSE, awaits |-> NoSession]

\* the module as imported: _sessions = {}
Unregistered ==
    /\ sessions = [project \in Projects |-> NoSession]
    /\ objects = [id \in SessionIds |-> Unmade]
    /\ cleanup = [todo |-> {}, closing |-> NoSession]

\* the message types a worker sends to the supervisor, and the name under
\* which the raw-output callbacks are kept
WorkerTypes == {"agent_chat_message", "step_update", "agent_narrative"}
Raw == "output"
Kinds == WorkerTypes \cup {Raw}

\* a started worker that has printed nothing, and a manager without callbacks
Unread ==
    /\ emitted = <<>>
    /\ consumed = 0
    /\ registered = [kind \in Kinds |-> <<>>]
    /\ dispatched = <<>>

\* the schema after create_database: Base.metadata.create_all made every
\* table of the models
Tables == {"features", "step_progress"}

\* the server's own state while only the tools of the store, the channel or
\* the supervisor run
Installed ==
    /\ tables = Tables
    /\ Unspawned
    /\ Hosted
    /\ Unregistered
    /\ Unread

\* the claim protocol reads neither steps nor label: its runs create
\* one-step features without a label
PlainItems == {item \in Items : item.steps = 1}

Init ==
    /\ features = <<>>
    /\ pc = [p \in Agents |-> "idle"]
    /\ pend = [p \in Agents |-> NoPend]
    /\ returned = [p \in Agents |-> NoRet]
    /\ step_progress = NoSteps
    /\ clock = 1
    /\ Constructed
    /\ Unsupervised
    /\ Installed

Call(p) ==
    \/ \E g \in {p, NoAgent} : FeatureGetNext(p, g)
    \/ FeatureClaimNext(p, p)
    \/ \E i \in Ids, g \in {p, NoAgent} : FeatureMarkInProgress(p, i, g)
    \/ \E i \in Ids, g \in {p, NoAgent} : FeatureRelease(p, i, g)
    \/ \E i \in Ids : FeatureClearInProgress(p, i)
    \/ \E i \in Ids : FeatureMarkPassing(p, i)
    \/ \E i \in Ids : FeatureSkip(p, i)
    \/ \E n \in 1 .. MaxBatch : \E b \in [1 .. n -> PlainItems] :
          FeatureCreateBulk(p, b, Null)
    \/ \E t \in Types : FeatureCreate(p, t, 1)
    \/ \E i \in Ids : FeatureDelete(p, i)
    \/ Commit(p)
    \/ Stop(p)

Next == \E p \in Agents : Call(p)

Spec == Init /\ [][Next]_vars

----------------------------------------------------------------------------
(* One call per agent against a freshly created backlog *)

\* the store after feature_create_bulk of a valid batch on an empty table
Fresh(types) ==
    Flushed(<<>>, feature_create_bulk(<<>>,
                      [k \in DOMAIN types |-> [type |-> types[k], valid |-> TRUE, steps |-> 1]],
                      Null))

InitOnce ==
    /\ \E n \in 1 .. MaxId : \E types \in [1 .. n -> Types] :
          /\ \A k \in 1 .. n : InWindow(Fresh(types)[k].priority)
          /\ features = Fresh(types)
    /\ pc = [p \in Agents |-> "idle"]
    /\ pend = [p \in Agents |-> NoPend]
    /\ returned = [p \in Agents |-> NoRet]
    /\ step_progress = NoSteps
    /\ clock = 1
    /\ Constructed
    /\ Unsupervised
    /\ Installed

OnceClaimNext(p) ==
    /\ returned[p] = NoRet
    /\ Run(p, "claim_next", feature_claim_next(features, p), TRUE)

OnceGetNext(p) ==
    /\ returned[p] = NoRet
    /\ Run(p, "get_next", feature_get_next(features, p), TRUE)

OnceMarkInProgress(p, feature_id) ==
    /\ returned[p] = NoRet
    /\ Run(p, "mark_in_progress", feature_mark_in_progress(features, feature_id, p), TRUE)

OnceCommit(p) ==
    /\ pc[p] = "flush"
    /\ Finish(p, pend[p].op, pend[p].work, TRUE)

NextOnce ==
    \E p \in Agents :
        \/ OnceClaimNext(p)
        \/ OnceGetNext(p)
        \/ \E i \in Ids : OnceMarkInProgress(p, i)
        \/ OnceCommit(p)

SpecOnce == InitOnce /\ [][NextOnce]_vars

----------------------------------------------------------------------------
(* Step progress, and the backlog's catalog (create, delete) with bugs,     *)
(* labels and steps lists of different lengths                              *)

\* a StepProgress row as the migration inserts it
StepRow == [started_at |-> NoTime, completed |-> FALSE, completed_at |-> NoTime]

\* migrate_add_step_progress_table on a store that has no step_progress
\* table: one row per (feature, index of a step of its steps list).  No tool
\* of the server inserts into step_progress.
migrate_add_step_progress_table(f) ==
    [key \in {k \in (DOMAIN f) \X (0 .. MaxSteps - 1) : k[2] < f[k[1]].steps} |-> StepRow]

\* attribute assignments on the loaded StepProgress row, then session.commit()
StepUpdates(sp, key, assign) ==
    [NoWork EXCEPT !.kind = "step_update", !.id = key, !.set = Dirty(sp[key], assign)]

\* variant of feature_step_mark_started: the step is started afresh
feature_step_mark_restarted(sp, feature_id, step_index, now) ==
    IF <<feature_id, step_index>> \notin DOMAIN sp THEN Returns("not_found", feature_id)
    ELSE StepUpdates(sp, <<feature_id, step_index>>,
                     [started_at |-> now, completed |-> FALSE, completed_at |-> NoTime])

feature_step_mark_started(sp, feature_id, step_index, now) ==
    IF <<feature_id, step_index>> \notin DOMAIN sp THEN Returns("not_found", feature_id)
    ELSE StepUpdates(sp, <<feature_id, step_index>>, [started_at |-> now])

feature_step_mark_completed(sp, feature_id, step_index, now) ==
    IF <<feature_id, step_index>> \notin DOMAIN sp THEN Returns("not_found", feature_id)
    ELSE StepUpdates(sp, <<feature_id, step_index>>,
                     [completed |-> TRUE, completed_at |-> now])

feature_get_progress_details(f, sp, feature_id) ==
    LET steps == {key \in DOMAIN sp : key[1] = feature_id}
    IN  IF feature_id \notin DOMAIN f
        THEN [kind |-> "not_found", total_steps |-> 0, completed_steps |-> 0,
              in_progress_steps |-> 0, pending_steps |-> 0]
        ELSE [kind |-> "ok",
              total_steps |-> Cardinality(steps),
              completed_steps |-> Cardinality({k \in steps : sp[k].completed}),
              in_progress_steps |->
                  Cardinality({k \in steps : sp[k].started_at # NoTime /\ ~sp[k].completed}),
              pending_steps |-> Cardinality({k \in steps : sp[k].started_at = NoTime})]

\* The step_progress table after the flush.  Only a step tool writes to it:
\* the DELETE of a feature is DELETE FROM features WHERE id = :id on a
\* connection that does not enforce foreign keys.
StepFlushed(sp, w) ==
    IF w.kind = "step_update" /\ w.id \in DOMAIN sp
    THEN [sp EXCEPT ![w.id] = Apply(@, w.set)]
    ELSE sp

\* the checked run stays within its bounds, one bug boost allowed
WithinCatalog(f, w) ==
    w.kind = "insert" =>
        /\ \A k \in 1 .. Len(w.rows) :
              1 - BugBoost <= w.rows[k].priority /\ w.rows[k].priority <= MaxPriority
        /\ NextId(f) + Len(w.rows) - 1 <= MaxId

\* a tool call that runs from its reads to its return with no commit of
\* another process in between
Alone(w) ==
    /\ WithinCatalog(features, w)
    /\ features' = Flushed(features, w)
    /\ step_progress' = StepFlushed(step_progress, w)
    /\ UNCHANGED <<pc, pend, returned, clock, channel, supervision, server>>

CreateBulkAlone(batch, label) == Alone(feature_create_bulk(features, batch, label))

CreateAlone(type, steps) == Alone(feature_create(features, type, steps))

DeleteAlone(feature_id) == Alone(feature_delete(features, feature_id))

\* feature_update given no steps argument (steps: list[str] | None = None)
Unset == 0

\* feature_update: the row is loaded, every given field is assigned, commit.
\* Of the editable fields only steps is a column of the model; a steps
\* argument has at least one element (min_length=1).
feature_update(f, feature_id, steps) ==
    IF feature_id \notin DOMAIN f THEN Returns("not_found", feature_id)
    ELSE IF steps = Unset THEN Updates(f, feature_id, <<>>)
    ELSE Updates(f, feature_id, [steps |-> steps])

UpdateAlone(feature_id, steps) == Alone(feature_update(features, feature_id, steps))

FeatureStepMarkStarted(feature_id, step_index) ==
    Alone(feature_step_mark_started(step_progress, feature_id, step_index, clock))

FeatureStepMarkCompleted(feature_id, step_index) ==
    Alone(feature_step_mark_completed(step_progress, feature_id, step_index, clock))

FeatureGetProgressDetails(feature_id) ==
    /\ feature_get_progress_details(features, step_progress, feature_id).total_steps >= 0
    /\ UNCHANGED vars

\* time passes between two readings of datetime.utcnow()
Tick ==
    /\ clock < MaxClock
    /\ clock' = clock + 1
    /\ UNCHANGED <<features, pc, pend, returned, step_progress, channel, supervision, server>>

\* a store of unlabelled features whose step_progress table the migration
\* has populated (or an empty store)
InitSteps ==
    /\ \E n \in 0 .. MaxLegacy : \E steps \in [1 .. n -> 1 .. MaxSteps] :
          features = Flushed(<<>>, feature_create_bulk(<<>>,
                         [k \in 1 .. n |-> [type |-> "feature", valid |-> TRUE,
                                            steps |-> steps[k]]], Null))
    /\ step_progress = migrate_add_step_progress_table(features)
    /\ pc = [p \in Agents |-> "idle"]
    /\ pend = [p \in Agents |-> NoPend]
    /\ returned = [p \in Agents |-> NoRet]
    /\ clock = 1
    /\ Constructed
    /\ Unsupervised
    /\ Installed

NextSteps ==
    \/ \E n \in 1 .. MaxBatch : \E b \in [1 .. n -> Items] : \E l \in Labels :
          CreateBulkAlone(b, l)
    \/ \E t \in Types, n \in 1 .. MaxSteps : CreateAlone(t, n)
    \/ \E i \in Ids : DeleteAlone(i)
    \/ \E i \in Ids, n \in {Unset} \cup (1 .. MaxSteps) : UpdateAlone(i, n)
    \/ \E i \in Ids, k \in 0 .. MaxSteps - 1 : FeatureStepMarkStarted(i, k)
    \/ \E i \in Ids, k \in 0 .. MaxSteps - 1 : FeatureStepMarkCompleted(i, k)
    \/ \E i \in Ids : FeatureGetProgressDetails(i)
    \/ Tick

SpecSteps == InitSteps /\ [][NextSteps]_vars

----------------------------------------------------------------------------
(* Progress statistics, on a backlog created as one batch                   *)

\* round((passing / total) * 100, 1), in tenths of a percent (ties to even;
\* no tie occurs for a total below 16)
Percentage(passing, total) ==
    IF total > 0
    THEN LET q == (passing * 1000) \div total
             r == (passing * 1000) % total
         IN  IF 2 * r > total \/ (2 * r = total /\ q % 2 = 1) THEN q + 1 ELSE q
    ELSE 0

\* variant of feature_get_stats: a passing feature counts as in progress too
feature_get_stats_open(f) ==
    LET total == Cardinality(DOMAIN f)
        passing == Cardinality({i \in DOMAIN f : f[i].passes})
        in_progress == Cardinality({i \in DOMAIN f : f[i].in_progress \/ f[i].passes})
    IN  [passing |-> passing, in_progress |-> in_progress, total |-> total,
         percentage |-> Percentage(passing, total)]

feature_get_stats(f) ==
    LET total == Cardinality(DOMAIN f)
        passing == Cardinality({i \in DOMAIN f : f[i].passes})
        in_progress == Cardinality({i \in DOMAIN f : f[i].in_progress})
    IN  [passing |-> passing, in_progress |-> in_progress, total |-> total,
         percentage |-> Percentage(passing, total)]

\* a tool call of agent p that runs alone against the table; what it
\* returned is kept
Answered(p, op, w) ==
    /\ w.kind = "insert" => NextId(features) + Len(w.rows) - 1 <= MaxScenario
    /\ features' = Flushed(features, w)
    /\ returned' = [returned EXCEPT ![p] = Outcome(features, op, w)]
    /\ UNCHANGED <<pc, pend, step_progress, clock, channel, supervision, server>>

\* the one batch of the backlog
StatsCreateBulk(p, batch) ==
    /\ features = <<>>
    /\ Answered(p, "create_bulk", feature_create_bulk(features, batch, Null))

StatsClaimNext(p) == Answered(p, "claim_next", feature_claim_next(features, p))

StatsMarkPassing(p, feature_id) ==
    Answered(p, "mark_passing", feature_mark_passing(features, feature_id))

StatsRelease(p, feature_id) ==
    Answered(p, "release", feature_release(features, feature_id, p))

FeatureGetStats(p) ==
    /\ returned' = [returned EXCEPT ![p] =
                       [op |-> "get_stats", kind |-> "ok",
                        id |-> feature_get_stats(features).total]]
    /\ UNCHANGED <<features, pc, pend, step_progress, clock, channel, supervision, server>>

InitStats == Init

NextStats ==
    \E p \in Agents :
        \/ \E n \in 1 .. MaxScenario : \E b \in [1 .. n -> PlainItems] : StatsCreateBulk(p, b)
        \/ StatsClaimNext(p)
        \/ \E i \in 1 .. MaxScenario : StatsMarkPassing(p, i)
        \/ \E i \in 1 .. MaxScenario : StatsRelease(p, i)
        \/ FeatureGetStats(p)

SpecStats == InitStats /\ [][NextStats]_vars

----------------------------------------------------------------------------
(* The agent's channel (agent_communication.py): @@MESSAGE@@ lines written  *)
(* to stdout by send_message and read from stdin by the listener thread.    *)
(* A text is a sequence of characters: the characters that JSON or the line *)
(* protocol treat specially, and runs of ordinary characters.               *)

Prefix == "@@MESSAGE@@"
LF == "\n"
Quote == "\""
Backslash == "\\"
Space == " "
Whitespace == {Space, LF}

\* message types: "ping" has a callback list from __init__, "note" has none
MsgTypes == {"ping", "note"}
Texts == UNION {[1 .. n -> {"a", Quote, Backslash, LF}] : n \in 0 .. MaxText}
Payloads == {Obj(<<>>)} \cup {Obj(<<[key |-> <<"content">>, val |-> Str(s)]>>) : s \in Texts}

(* json.dumps *)

\* variant of Escaped: the characters are written as they are
EscapedRaw(s) == s

\* the body of a JSON string: quote, backslash and newline are escaped
RECURSIVE Escaped(_)
Escaped(s) ==
    IF s = <<>> THEN <<>>
    ELSE (IF Head(s) \in {Quote, Backslash} THEN <<Backslash, Head(s)>>
          ELSE IF Head(s) = LF THEN <<Backslash, "n">>
          ELSE <<Head(s)>>) \o Escaped(Tail(s))

RECURSIVE json_dumps(_)
RECURSIVE DumpsMembers(_, _)
json_dumps(v) ==
    IF v.tag = "str" THEN <<Quote>> \o Escaped(v.s) \o <<Quote>>
    ELSE <<"{">> \o DumpsMembers(v.fields, 1) \o <<"}">>

\* the members of an object, separated by ", ", key and value by ": "
DumpsMembers(fields, k) ==
    IF k > Len(fields) THEN <<>>
    ELSE (IF k > 1 THEN <<",", Space>> ELSE <<>>)
         \o <<Quote>> \o Escaped(fields[k].key) \o <<Quote, ":", Space>>
         \o json_dumps(fields[k].val)
         \o DumpsMembers(fields, k + 1)

\* datetime.utcnow().isoformat()
isoformat(now) == <<ToString(now)>>

\* message = {"type": ..., "payload": ..., "timestamp": ...}; json.dumps(message)
message_json(message_type, payload, now) ==
    json_dumps(Obj(<<[key |-> <<"type">>, val |-> Str(<<message_type>>)],
                     [key |-> <<"payload">>, val |-> payload],
                     [key |-> <<"timestamp">>, val |-> Str(isoformat(now))]>>))

(* json.loads *)

Fail == [ok |-> FALSE, val |-> Str(<<>>), rest |-> <<>>]

RECURSIVE SkipWs(_)
SkipWs(t) == IF t # <<>> /\ Head(t) \in Whitespace THEN SkipWs(Tail(t)) ELSE t

\* a JSON string after its opening quote: up to the closing quote, escapes
\* undone; a control character or an unknown escape is a JSONDecodeError
RECURSIVE ScanString(_, _)
ScanString(t, acc) ==
    IF t = <<>> THEN Fail
    ELSE IF Head(t) = Quote THEN [ok |-> TRUE, val |-> Str(acc), rest |-> Tail(t)]
    ELSE IF Head(t) = LF THEN Fail
    ELSE IF Head(t) = Backslash
         THEN IF Len(t) < 2 THEN Fail
              ELSE IF t[2] \in {Quote, Backslash}
                   THEN ScanString(Tail(Tail(t)), Append(acc, t[2]))
                   ELSE IF t[2] = "n"
                        THEN ScanString(Tail(Tail(t)), Append(acc, LF))
                        ELSE Fail
         ELSE ScanString(Tail(t), Append(acc, Head(t)))

RECURSIVE ScanValue(_)
RECURSIVE ScanMembers(_, _)
ScanValue(t0) ==
    LET t == SkipWs(t0)
    IN  IF t = <<>> THEN Fail
        ELSE IF Head(t) = Quote THEN ScanString(Tail(t), <<>>)
        ELSE IF Head(t) = "{"
             THEN LET u == SkipWs(Tail(t))
                  IN  IF u # <<>> /\ Head(u) = "}"
                      THEN [ok |-> TRUE, val |-> Obj(<<>>), rest |-> Tail(u)]
                      ELSE ScanMembers(u, <<>>)
             ELSE Fail

ScanMembers(t0, fields) ==
    LET t == SkipWs(t0)
    IN  IF t = <<>> \/ Head(t) # Quote THEN Fail
        ELSE LET key == ScanString(Tail(t), <<>>)
                 u == SkipWs(key.rest)
             IN  IF ~key.ok \/ u = <<>> \/ Head(u) # ":" THEN Fail
                 ELSE LET v == ScanValue(Tail(u))
                          w == SkipWs(v.rest)
                          added == Append(fields, [key |-> key.val.s, val |-> v.val])
                      IN  IF ~v.ok \/ w = <<>> THEN Fail
                          ELSE IF Head(w) = "}"
                               THEN [ok |-> TRUE, val |-> Obj(added), rest |-> Tail(w)]
                               ELSE IF Head(w) = ","
                                    THEN ScanMembers(Tail(w), added)
                                    ELSE Fail

\* the whole text is one value, or JSONDecodeError
json_loads(t) ==
    LET r == ScanValue(t)
    IN  IF r.ok /\ SkipWs(r.rest) = <<>> THEN r ELSE Fail

\* "key" in message, message["key"] of a dict (the last member of that name)
Has(fields, key) == \E k \in 1 .. Len(fields) : fields[k].key = key

Get(fields, key) ==
    fields[CHOOSE k \in 1 .. Len(fields) :
              /\ fields[k].key = key
              /\ \A j \in k + 1 .. Len(fields) : fields[j].key # key].val

(* _listen_stdin, one line *)

RECURSIVE strip(_)
strip(line) ==
    IF line # <<>> /\ Head(line) \in Whitespace THEN strip(Tail(line))
    ELSE IF line # <<>> /\ line[Len(line)] \in Whitespace
         THEN strip(SubSeq(line, 1, Len(line) - 1))
         ELSE line

Skipped(kind) == [kind |-> kind, type |-> <<>>, payload |-> Obj(<<>>)]

\* variant of Handled: as the mock agent of test_communication.py reads a
\* message, with message.get("payload", {})
HandledLenient(line) ==
    LET text == strip(line)
        message == json_loads(Tail(text))
    IN  IF text = <<>> \/ Head(text) # Prefix THEN Skipped("output")
        ELSE IF ~message.ok THEN Skipped("malformed")
        ELSE IF message.val.tag # "obj" \/ ~Has(message.val.fields, <<"type">>)
             THEN Skipped("invalid")
             ELSE [kind |-> "message",
                   type |-> Get(message.val.fields, <<"type">>).s,
                   payload |-> IF Has(message.val.fields, <<"payload">>)
                               THEN Get(message.val.fields, <<"payload">>)
                               ELSE Obj(<<>>)]

\* What the loop body does with a line it read: not a protocol line; a
\* JSONDecodeError; a message without "type" or "payload"; an exception of
\* the body (a JSON string is indexed by a key, an object is looked up as a
\* dictionary key); or a message to dispatch.
Handled(line) ==
    LET text == strip(line)
        message == json_loads(Tail(text))
    IN  IF text = <<>> \/ Head(text) # Prefix THEN Skipped("output")
        ELSE IF ~message.ok THEN Skipped("malformed")
        ELSE IF message.val.tag = "str"
             THEN IF \A key \in {"type", "payload"} :
                        \E k \in 1 .. Len(message.val.s) : message.val.s[k] = key
                  THEN Skipped("error")
                  ELSE Skipped("invalid")
        ELSE IF ~Has(message.val.fields, <<"type">>) \/ ~Has(message.val.fields, <<"payload">>)
             THEN Skipped("invalid")
        ELSE IF Get(message.val.fields, <<"type">>).tag # "str"
             THEN Skipped("error")
             ELSE [kind |-> "message",
                   type |-> Get(message.val.fields, <<"type">>).s,
                   payload |-> Get(message.val.fields, <<"payload">>)]

(* send_message from concurrent callers *)


\* print(f"@@MESSAGE@@{message_json}", flush=True) writes the text ...
send_message(c, message_type, payload) ==
    /\ senders[c].pc = "idle"
    /\ Cardinality({k \in 1 .. Len(stdout) : stdout[k] = Prefix}) < MaxSends
    /\ LET json == message_json(message_type, payload, clock)
       IN  /\ stdout' = stdout \o <<Prefix>> \o json
           /\ senders' = [senders EXCEPT ![c] = [pc |-> "end", type |-> message_type,
                                                 payload |-> payload, json |-> json]]
    /\ UNCHANGED <<store, supervision, server, running, callbacks, listeners, stdin, offset, eof, invoked>>

\* ... then the end of the line, then flushes
PrintEnd(c) ==
    /\ senders[c].pc = "end"
    /\ stdout' = stdout \o <<LF>>
    /\ senders' = [senders EXCEPT ![c] = Quiet]
    /\ UNCHANGED <<store, supervision, server, running, callbacks, listeners, stdin, offset, eof, invoked>>

InitSend == Init

NextSend ==
    \/ \E c \in Callers, t \in MsgTypes, p \in Payloads : send_message(c, t, p)
    \/ \E c \in Callers : PrintEnd(c)
    \/ Tick

SpecSend == InitSend /\ [][NextSend]_vars

(* the listener *)

Callbacks == {"handler", "raiser"}
Raises(callback) == callback = "raiser"

\* lines the server, or anything else, writes to the agent's stdin
Frames == {<<Prefix>> \o message_json(t, Obj(<<>>), 1) \o <<LF>> : t \in MsgTypes}
Malformed ==
    {<<Prefix, "{", Quote, "type", Quote, ":", LF>>,
     <<Prefix, "{", Quote, "type", Quote, ":", Space, Quote, "ping", Quote, "}", LF>>}
Output == {<<"a", LF>>}
InputLines == Frames \cup Malformed \cup Output

\* self.callbacks[message_type], for a type read from a message
Registered(type) ==
    IF \E t \in DOMAIN callbacks : type = <<t>>
    THEN callbacks[CHOOSE t \in DOMAIN callbacks : type = <<t>>]
    ELSE <<>>

RECURSIVE Sum(_, _)
Sum(f, S) == IF S = {} THEN 0 ELSE LET x == CHOOSE y \in S : TRUE IN f[x] + Sum(f, S \ {x})

Registrations == Sum([t \in DOMAIN callbacks |-> Len(callbacks[t])], DOMAIN callbacks)

register_callback(message_type, callback) ==
    /\ Registrations < MaxCallbacks
    /\ callbacks' = [t \in DOMAIN callbacks \cup {message_type} |->
                        IF t = message_type
                        THEN Append(IF t \in DOMAIN callbacks THEN callbacks[t] ELSE <<>>,
                                    callback)
                        ELSE callbacks[t]]
    /\ UNCHANGED <<store, supervision, server, running, listeners, stdin, offset, eof, invoked, stdout, senders>>

\* start: a new daemon thread runs _listen_stdin, unless self.running
start ==
    /\ IF running THEN UNCHANGED <<running, listeners>>
       ELSE /\ running' = TRUE
            /\ \E i \in Listeners :
                  /\ listeners[i].pc \in {"none", "done"}
                  /\ \A j \in Listeners : j < i => listeners[j].pc \notin {"none", "done"}
                  /\ listeners' = [listeners EXCEPT ![i] = [NoListener EXCEPT !.pc = "while"]]
    /\ UNCHANGED <<store, supervision, server, callbacks, stdin, offset, eof, invoked, stdout, senders>>

\* stop: self.running = False; the join gives up after its timeout
stop ==
    /\ running' = FALSE
    /\ UNCHANGED <<store, supervision, server, callbacks, listeners, stdin, offset, eof, invoked, stdout, senders>>

\* the other end writes a line, or closes the stream
Write(line) ==
    /\ ~eof
    /\ Len(stdin) < MaxLines
    /\ stdin' = Append(stdin, line)
    /\ UNCHANGED <<store, supervision, server, running, callbacks, listeners, offset, eof, invoked, stdout, senders>>

Close ==
    /\ ~eof
    /\ eof' = TRUE
    /\ UNCHANGED <<store, supervision, server, running, callbacks, listeners, stdin, offset, invoked, stdout, senders>>

\* while self.running:
ListenWhile(i) ==
    /\ listeners[i].pc = "while"
    /\ listeners' = [listeners EXCEPT ![i].pc = IF running THEN "readline" ELSE "done"]
    /\ UNCHANGED <<store, supervision, server, running, callbacks, stdin, offset, eof, invoked, stdout, senders>>

\* Handled, for each line that is written to stdin
HandledLine == [line \in InputLines |-> Handled(line)]

\* The listener after the loop body handled a line, up to the loop over the
\* callbacks: a message whose type has a callback list is dispatched, any
\* other line takes the listener back to the loop test.
Received(line, n) ==
    LET message == HandledLine[line]
    IN  IF message.kind = "message" /\ \E t \in DOMAIN callbacks : message.type = <<t>>
        THEN [pc |-> "callbacks", line |-> n,
              type |-> CHOOSE t \in DOMAIN callbacks : message.type = <<t>>,
              k |-> 1]
        ELSE [NoListener EXCEPT !.pc = "while"]

\* line = sys.stdin.readline() returns a line (it blocks until there is one)
ListenReadline(i) ==
    /\ listeners[i].pc = "readline"
    /\ offset < Len(stdin)
    /\ offset' = offset + 1
    /\ listeners' = [listeners EXCEPT ![i] = Received(stdin[offset + 1], offset + 1)]
    /\ UNCHANGED <<store, supervision, server, running, callbacks, stdin, eof, invoked, stdout, senders>>

\* readline returns "" at the end of the stream: break
ListenEof(i) ==
    /\ listeners[i].pc = "readline"
    /\ offset = Len(stdin)
    /\ eof
    /\ listeners' = [listeners EXCEPT ![i].pc = "done"]
    /\ UNCHANGED <<store, supervision, server, running, callbacks, stdin, offset, eof, invoked, stdout, senders>>

\* variant of Resumed: an exception of a callback ends the loop over the
\* callbacks of this message
ResumedUnlessRaised(listener, callback) ==
    IF Raises(callback) THEN [NoListener EXCEPT !.pc = "while"]
    ELSE [listener EXCEPT !.k = @ + 1]

\* the listener after callback(payload) returned, or raised and the
\* exception was caught and printed
Resumed(listener, callback) == [listener EXCEPT !.k = @ + 1]

\* for callback in self.callbacks[message_type]: the next callback is
\* called, or the list is exhausted
ListenCallback(i) ==
    /\ listeners[i].pc = "callbacks"
    /\ LET list == callbacks[listeners[i].type]
           k == listeners[i].k
       IN  IF k <= Len(list)
           THEN /\ invoked' = Append(invoked, [line |-> listeners[i].line, callback |-> list[k]])
                /\ listeners' = [listeners EXCEPT ![i] = Resumed(@, list[k])]
           ELSE /\ listeners' = [listeners EXCEPT ![i] = [NoListener EXCEPT !.pc = "while"]]
                /\ UNCHANGED invoked
    /\ UNCHANGED <<store, supervision, server, running, callbacks, stdin, offset, eof, stdout, senders>>

Listen(i) == ListenWhile(i) \/ ListenReadline(i) \/ ListenEof(i) \/ ListenCallback(i)

InitListen == Init

NextListen ==
    \/ \E t \in MsgTypes, callback \in Callbacks : register_callback(t, callback)
    \/ start
    \/ stop
    \/ \E line \in InputLines : Write(line)
    \/ Close
    \/ \E i \in Listeners : Listen(i)

SpecListen == InitListen /\ [][NextListen]_vars

\* a communicator with the callback lists of __init__
NextUnregistered ==
    \/ start
    \/ stop
    \/ \E line \in InputLines : Write(line)
    \/ Close
    \/ \E i \in Listeners : Listen(i)

\* the listener threads are scheduled; nothing obliges the other end of the
\* stream to write or to close
FairListen ==
    InitListen /\ [][NextUnregistered]_vars /\ \A i \in Listeners : WF_vars(Listen(i))

----------------------------------------------------------------------------
(* The supervisor of the agent processes (server.services.process_manager,  *)
(* used by test_process_manager.py), per worker                             *)

\* the lifecycle of a worker
Edges ==
    {<<"idle", "starting">>, <<"starting", "running">>, <<"running", "stopping">>,
     <<"stopping", "stopped">>, <<"running", "crashed">>}

\* variant of Sent: the message is written whatever the state
SentAnyway(state) == "ok"

\* send: forwarded to the channel's writer only while the worker is running
Sent(state) == IF state = "running" THEN "ok" ELSE "not_running"

\* start: a running worker is reported, nothing is spawned; on an idle worker
\* the spawn fails and the worker stays idle, or the process handle is
\* obtained
SupervisorStart(w) ==
    /\ \/ /\ status[w] = "running"
          /\ result' = [result EXCEPT ![w] = [op |-> "start", value |-> "already_running"]]
          /\ UNCHANGED <<status, process>>
       \/ /\ status[w] = "idle"
          /\ result' = [result EXCEPT ![w] = [op |-> "start", value |-> "error"]]
          /\ UNCHANGED <<status, process>>
       \/ /\ status[w] = "idle"
          /\ status' = [status EXCEPT ![w] = "starting"]
          /\ process' = [process EXCEPT ![w] = @ + 1]
          /\ result' = [result EXCEPT ![w] = [op |-> "start", value |-> "handle"]]
    /\ UNCHANGED <<store, channel, server>>

\* the inbound reader of the new process is scheduled
SupervisorRunning(w) ==
    /\ status[w] = "starting"
    /\ status' = [status EXCEPT ![w] = "running"]
    /\ UNCHANGED <<store, channel, server, process, result>>

SupervisorSend(w) ==
    /\ result' = [result EXCEPT ![w] = [op |-> "send", value |-> Sent(status[w])]]
    /\ UNCHANGED <<store, channel, server, status, process>>

\* terminate: the process tree is asked to end ...
SupervisorTerminate(w) ==
    /\ status[w] = "running"
    /\ status' = [status EXCEPT ![w] = "stopping"]
    /\ result' = [result EXCEPT ![w] = [op |-> "terminate", value |-> "ok"]]
    /\ UNCHANGED <<store, channel, server, process>>

\* ... and has ended, within the grace period or by the forced kill
SupervisorStopped(w) ==
    /\ status[w] = "stopping"
    /\ status' = [status EXCEPT ![w] = "stopped"]
    /\ process' = [process EXCEPT ![w] = @ - 1]
    /\ UNCHANGED <<store, channel, server, result>>

\* the process exits while the worker is marked running
SupervisorCrashed(w) ==
    /\ status[w] = "running"
    /\ status' = [status EXCEPT ![w] = "crashed"]
    /\ process' = [process EXCEPT ![w] = @ - 1]
    /\ UNCHANGED <<store, channel, server, result>>

InitSupervisor == Init

NextSupervisor ==
    \E w \in Workers :
        \/ SupervisorStart(w)
        \/ SupervisorRunning(w)
        \/ SupervisorSend(w)
        \/ SupervisorTerminate(w)
        \/ SupervisorStopped(w)
        \/ SupervisorCrashed(w)

SpecSupervisor == InitSupervisor /\ [][NextSupervisor]_vars

----------------------------------------------------------------------------
(* Opening a store: create_database and the step_progress migration         *)

\* the SQLite file: its tables and their rows (a table that does not exist
\* has no rows)
Db == [tables |-> tables, features |-> features, step_progress |-> step_progress]

\* Base.metadata.create_all(bind=engine): CREATE TABLE for every table of the
\* models that the file does not have; a created table is empty
create_all(db) == [db EXCEPT !.tables = @ \cup Tables]

\* migrate_add_step_progress_table(engine) as a whole: it returns at once
\* when sqlite_master lists step_progress, else it creates the table and
\* inserts a row per step of every feature
migrate_step_progress(db) ==
    IF "step_progress" \in db.tables THEN db
    ELSE [db EXCEPT !.tables = @ \cup {"step_progress"},
                    !.step_progress = migrate_add_step_progress_table(db.features)]

\* create_database: create_all, the column migrations (every column of the
\* model is present afterwards), then the step_progress migration
create_database(db) == migrate_step_progress(create_all(db))

\* the file takes the tables and rows of db
Stored(db) ==
    /\ tables' = db.tables
    /\ features' = db.features
    /\ step_progress' = db.step_progress
    /\ UNCHANGED <<pc, pend, returned, clock, channel, supervision, inbound, entry, tree, registry>>

CreateDatabase == Stored(create_database(Db))

\* the migration run on the engine of a file by itself
MigrateAddStepProgressTable ==
    /\ "features" \in tables
    /\ Stored(migrate_step_progress(Db))

\* A file as an earlier version of the server left it: a features table
\* (with up to MaxLegacy features) and no step_progress table
InitOpen ==
    /\ \E n \in 0 .. MaxLegacy : \E steps \in [1 .. n -> 1 .. MaxSteps] :
          features = Flushed(<<>>, feature_create_bulk(<<>>,
                         [k \in 1 .. n |-> [type |-> "feature", valid |-> TRUE,
                                            steps |-> steps[k]]], Null))
    /\ tables = {"features"}
    /\ step_progress = NoSteps
    /\ pc = [p \in Agents |-> "idle"]
    /\ pend = [p \in Agents |-> NoPend]
    /\ returned = [p \in Agents |-> NoRet]
    /\ clock = 1
    /\ Constructed
    /\ Unsupervised
    /\ Unspawned
    /\ Hosted
    /\ Unregistered
    /\ Unread

\* a tool call on a session of create_database, run alone
Opened(w) ==
    /\ tables = Tables
    /\ Alone(w)

OpenedCreate(type, steps) == Opened(feature_create(features, type, steps))

OpenedDelete(feature_id) == Opened(feature_delete(features, feature_id))

OpenedStepMarkStarted(feature_id, step_index) ==
    Opened(feature_step_mark_started(step_progress, feature_id, step_index, clock))

OpenedStepMarkCompleted(feature_id, step_index) ==
    Opened(feature_step_mark_completed(step_progress, feature_id, step_index, clock))

NextOpen ==
    \/ CreateDatabase
    \/ MigrateAddStepProgressTable
    \/ \E t \in Types, n \in 1 .. MaxSteps : OpenedCreate(t, n)
    \/ \E i \in Ids : OpenedDelete(i)
    \/ \E i \in Ids, k \in 0 .. MaxSteps - 1 : OpenedStepMarkStarted(i, k)
    \/ \E i \in Ids, k \in 0 .. MaxSteps - 1 : OpenedStepMarkCompleted(i, k)

SpecOpen == InitOpen /\ [][NextOpen]_vars

----------------------------------------------------------------------------
(* Workers that drain the queue: claim the next item, complete it, again    *)

\* the call of worker p has returned an item that p has not completed yet
Holding(p) == returned[p].op = "claim_next" /\ returned[p].kind = "ok"

\* worker p calls feature_claim_next with its own id
DrainClaimNext(p) ==
    /\ ~Holding(p)
    /\ Run(p, "claim_next", feature_claim_next(features, p), TRUE)

\* worker p calls feature_mark_passing on the item it was given
DrainMarkPassing(p) ==
    /\ Holding(p)
    /\ Run(p, "mark_passing", feature_mark_passing(features, returned[p].id), TRUE)

DrainCommit(p) ==
    /\ pc[p] = "flush"
    /\ Finish(p, pend[p].op, pend[p].work, TRUE)

\* one step of the loop of worker p
Drain(p) == DrainClaimNext(p) \/ DrainMarkPassing(p) \/ DrainCommit(p)

\* somebody else adds an item to the backlog
DrainCreate(type) ==
    LET w == feature_create(features, type, 1)
    IN  /\ WithinBounds(features, w)
        /\ features' = Flushed(features, w)
        /\ UNCHANGED <<pc, pend, returned, step_progress, clock, channel, supervision, server>>

InitDrain == Init

NextDrain ==
    \/ \E p \in Agents : Drain(p)
    \/ \E t \in Types : DrainCreate(t)

SpecDrain == InitDrain /\ [][NextDrain]_vars

\* every worker's process keeps running its loop
FairDrain == SpecDrain /\ \A p \in Agents : WF_vars(Drain(p))

----------------------------------------------------------------------------
(* The worker entry point: main() of parallel_agent_runner.py               *)

\* The process after main() ended.  main() returning (also early, after it
\* printed "Error: ... does not exist") ends the interpreter with status 0;
\* an exception that main() re-raises ends it with status 1.
Exited(cause) ==
    [pc |-> "exited", started |-> cause \in {"returned", "interrupted", "raised"},
     cause |-> cause,
     code |-> IF cause = "raised" THEN 1 ELSE 0]

\* the process of worker w is spawned with --project-dir and --worktree-dir
RunnerSpawn(w) ==
    /\ runner[w].pc \in {"none", "exited"}
    /\ runner' = [runner EXCEPT ![w] = [NoRunner EXCEPT !.pc = "project"]]
    /\ UNCHANGED <<store, channel, supervision, inbound, registry, schema, tree, dirs>>

\* if not project_dir.exists(): print(...); return
RunnerProjectDir(w) ==
    /\ runner[w].pc = "project"
    /\ runner' = [runner EXCEPT ![w] =
                     IF "project" \in dirs THEN [@ EXCEPT !.pc = "worktree"]
                     ELSE Exited("no_project_dir")]
    /\ UNCHANGED <<store, channel, supervision, inbound, registry, schema, tree, dirs>>

\* if not worktree_dir.exists(): print(...); return
RunnerWorktreeDir(w) ==
    /\ runner[w].pc = "worktree"
    /\ runner' = [runner EXCEPT ![w] =
                     IF w \in dirs THEN [@ EXCEPT !.pc = "agent", !.started = TRUE]
                     ELSE Exited("no_worktree_dir")]
    /\ UNCHANGED <<store, channel, supervision, inbound, registry, schema, tree, dirs>>

\* asyncio.run(run_autonomous_agent(...)) returns, is interrupted
\* (KeyboardInterrupt: a message is printed), or raises (re-raised)
RunnerAgent(w, how) ==
    /\ runner[w].pc = "agent"
    /\ runner' = [runner EXCEPT ![w] = Exited(how)]
    /\ UNCHANGED <<store, channel, supervision, inbound, registry, schema, tree, dirs>>

\* a directory is removed, or made again, while runners start
Rmdir(d) ==
    /\ d \in dirs
    /\ dirs' = dirs \ {d}
    /\ UNCHANGED <<store, channel, supervision, inbound, registry, schema, tree, runner>>

Mkdir(d) ==
    /\ d \notin dirs
    /\ dirs' = dirs \cup {d}
    /\ UNCHANGED <<store, channel, supervision, inbound, registry, schema, tree, runner>>

InitRunner == Init

NextRunner ==
    \/ \E w \in Workers : RunnerSpawn(w)
    \/ \E w \in Workers : RunnerProjectDir(w)
    \/ \E w \in Workers : RunnerWorktreeDir(w)
    \/ \E w \in Workers, how \in {"returned", "interrupted", "raised"} : RunnerAgent(w, how)
    \/ \E d \in Dirs : Rmdir(d)
    \/ \E d \in Dirs : Mkdir(d)

SpecRunner == InitRunner /\ [][NextRunner]_vars

----------------------------------------------------------------------------
(* Killing agent processes: /api/processes/kill and /api/processes/kill-all *)

\* psutil.Process.children(recursive=True): the running processes whose
\* chain of running parents leads to p
RECURSIVE Children(_, _)
Children(ps, p) ==
    LET direct == {c \in DOMAIN ps : ps[c].state = "running" /\ ps[c].parent = p}
    IN  direct \cup UNION {Children(ps, c) : c \in direct}

\* is_agent_process: decided on the command line; of the tree only the
\* worker has an agent's command line
is_agent_process(p) == p = Worker

\* a running process of the tree starts a child
Fork(p, c) ==
    /\ procs[p].state = "running"
    /\ procs[c].state = "none"
    /\ \A d \in Pids : d < c => procs[d].state # "none"
    /\ procs' = [procs EXCEPT ![c] = [parent |-> p, state |-> "running"]]
    /\ UNCHANGED <<store, channel, supervision, inbound, registry, schema, entry, killer>>

\* a process other than the worker ends by itself
Exit(p) ==
    /\ p # Worker
    /\ procs[p].state = "running"
    /\ procs' = [procs EXCEPT ![p].state = "dead"]
    /\ UNCHANGED <<store, channel, supervision, inbound, registry, schema, entry, killer>>

\* kill(): SIGKILL; psutil.NoSuchProcess if the process is gone
Killed(ps, p) == [ps EXCEPT ![p].state = "dead"]

\* the request arrives: psutil.Process(pid), is_agent_process, then
\* children = proc.children(recursive=True).  NoSuchProcess is answered 404;
\* the HTTPException(403) for a process that is no agent is raised inside
\* the try and caught by its except Exception, which answers 500.  kill-all
\* does the same for every agent process that process_iter yields.
KillBegin(op, pid) ==
    /\ killer.pc \in {"idle", "done"}
    /\ killer' =
          IF procs[pid].state # "running"
          THEN [NoKill EXCEPT !.op = op, !.pc = "done", !.pid = pid,
                              !.response = IF op = "kill" THEN "404" ELSE "none_killed"]
          ELSE IF ~is_agent_process(pid)
          THEN [NoKill EXCEPT !.op = op, !.pc = "done", !.pid = pid,
                              !.response = IF op = "kill" THEN "500" ELSE "none_killed"]
          ELSE [NoKill EXCEPT !.op = op, !.pc = "children", !.pid = pid,
                              !.children = Children(procs, pid)]
    /\ UNCHANGED <<store, channel, supervision, inbound, registry, schema, entry, procs>>

\* for child in children: child.kill(), NoSuchProcess passed over
KillChild(c) ==
    /\ killer.pc = "children"
    /\ c \in killer.children
    /\ \A d \in killer.children : c <= d
    /\ procs' = IF procs[c].state = "running" THEN Killed(procs, c) ELSE procs
    /\ killer' = [killer EXCEPT !.children = @ \ {c}]
    /\ UNCHANGED <<store, channel, supervision, inbound, registry, schema, entry>>

\* proc.kill(), and for /kill proc.wait(timeout=3); the response reports
\* success whether or not the wait timed out
KillParent ==
    /\ killer.pc = "children"
    /\ killer.children = {}
    /\ procs' = Killed(procs, killer.pid)
    /\ killer' = [killer EXCEPT !.pc = "done", !.response = "success"]
    /\ UNCHANGED <<store, channel, supervision, inbound, registry, schema, entry>>

InitTree == Init

NextTree ==
    \/ \E p \in Pids, c \in Pids : Fork(p, c)
    \/ \E p \in Pids : Exit(p)
    \/ \E op \in {"kill", "kill_all"}, pid \in Pids : KillBegin(op, pid)
    \/ \E c \in Pids : KillChild(c)
    \/ KillParent

SpecTree == InitTree /\ [][NextTree]_vars

----------------------------------------------------------------------------
(* The registry of add-features chat sessions (add_features_session.py).    *)
(* The coroutines run on one event loop: a step is what a coroutine does    *)
(* between two awaits that suspend it (client.__aenter__, client.__aexit__).*)

\* AddFeaturesSession.close up to its await: with a client that was entered
\* it starts client.__aexit__, otherwise it does nothing
close(objs, id) ==
    IF objs[id].client /\ objs[id].client_entered
    THEN [objs EXCEPT ![id].exiting = TRUE]
    ELSE objs

\* AddFeaturesSession.start up to its first await: without the skill file it
\* yields an error and returns, else it makes the client and awaits
\* client.__aenter__()
start_session(object, skill) ==
    IF skill THEN [object EXCEPT !.pc = "entering", !.client = TRUE]
    ELSE [object EXCEPT !.pc = "failed"]

\* the session object made next
Fresh_id == CHOOSE id \in SessionIds :
                /\ objects[id].pc = "unmade"
                /\ \A other \in SessionIds : other < id => objects[other].pc # "unmade"

\* The websocket handler on {"type": "start"}: create_add_features_session
\* (the old session popped, the new one registered, the old one closed) and
\* then session.start().  With nothing to await for the old session the
\* handler runs on to the first await of start().
CreateAddFeaturesSession(project, skill) ==
    /\ \E id \in SessionIds : objects[id].pc = "unmade"
    /\ LET old == sessions[project]
           session == [Unmade EXCEPT !.project = project, !.pc = "creating", !.awaits = old]
           closed == IF old # NoSession THEN close(objects, old) ELSE objects
       IN  /\ sessions' = [sessions EXCEPT ![project] = Fresh_id]
           /\ objects' = [closed EXCEPT ![Fresh_id] =
                             IF old # NoSession /\ closed[old].exiting THEN session
                             ELSE start_session(session, skill)]
    /\ UNCHANGED <<store, channel, supervision, inbound, schema, entry, tree, cleanup>>

\* the old session is closed: create_add_features_session returns and the
\* handler calls start()
CreateReturns(id, skill) ==
    /\ objects[id].pc = "creating"
    /\ ~objects[objects[id].awaits].exiting
    /\ objects' = [objects EXCEPT ![id] = start_session(@, skill)]
    /\ UNCHANGED <<store, channel, supervision, inbound, schema, entry, tree, sessions, cleanup>>

\* await self.client.__aenter__() returns: self._client_entered = True
StartEntered(id) ==
    /\ objects[id].pc = "entering"
    /\ objects' = [objects EXCEPT ![id].pc = "started", ![id].client_entered = TRUE,
                                  ![id].open = TRUE]
    /\ UNCHANGED <<store, channel, supervision, inbound, schema, entry, tree, sessions, cleanup>>

\* client.__aenter__() raises: "Failed to initialize Claude"
StartFailed(id) ==
    /\ objects[id].pc = "entering"
    /\ objects' = [objects EXCEPT ![id].pc = "failed"]
    /\ UNCHANGED <<store, channel, supervision, inbound, schema, entry, tree, sessions, cleanup>>

\* client.__aexit__ returns or raises; finally: _client_entered = False,
\* client = None
CloseFinally(id) ==
    /\ objects[id].exiting
    /\ objects' = [objects EXCEPT ![id].exiting = FALSE, ![id].open = FALSE,
                                  ![id].client_entered = FALSE, ![id].client = FALSE]
    /\ UNCHANGED <<store, channel, supervision, inbound, schema, entry, tree, sessions, cleanup>>

\* remove_add_features_session: pop under the lock, then close
RemoveAddFeaturesSession(project) ==
    /\ sessions' = [sessions EXCEPT ![project] = NoSession]
    /\ objects' = IF sessions[project] # NoSession THEN close(objects, sessions[project])
                  ELSE objects
    /\ UNCHANGED <<store, channel, supervision, inbound, schema, entry, tree, cleanup>>

\* cleanup_all_add_features_sessions closes the next session of its list
\* (the values of the dict, in the order of insertion)
cleanup_next(todo) ==
    IF todo = {} THEN [todo |-> {}, closing |-> NoSession]
    ELSE LET session == CHOOSE id \in todo : \A other \in todo : id <= other
         IN  [todo |-> todo \ {session}, closing |-> session]

\* cleanup_all_add_features_sessions: the list is taken and the dict cleared
\* under the lock, and the first session is closed
CleanupAllAddFeaturesSessions ==
    /\ cleanup.closing = NoSession
    /\ cleanup' = cleanup_next({sessions[project] : project \in Projects} \ {NoSession})
    /\ sessions' = [project \in Projects |-> NoSession]
    /\ objects' = IF cleanup'.closing # NoSession THEN close(objects, cleanup'.closing)
                  ELSE objects
    /\ UNCHANGED <<store, channel, supervision, inbound, schema, entry, tree>>

\* its await of session.close() is over: the next session, or the end
CleanupNext ==
    /\ cleanup.closing # NoSession
    /\ ~objects[cleanup.closing].exiting
    /\ cleanup' = cleanup_next(cleanup.todo)
    /\ objects' = IF cleanup'.closing # NoSession THEN close(objects, cleanup'.closing)
                  ELSE objects
    /\ UNCHANGED <<store, channel, supervision, inbound, schema, entry, tree, sessions>>

InitRegistry == Init

NextRegistry ==
    \/ \E project \in Projects, skill \in BOOLEAN : CreateAddFeaturesSession(project, skill)
    \/ \E id \in SessionIds, skill \in BOOLEAN : CreateReturns(id, skill)
    \/ \E id \in SessionIds : StartEntered(id)
    \/ \E id \in SessionIds : StartFailed(id)
    \/ \E id \in SessionIds : CloseFinally(id)
    \/ \E project \in Projects : RemoveAddFeaturesSession(project)
    \/ CleanupAllAddFeaturesSessions
    \/ CleanupNext

SpecRegistry == InitRegistry /\ [][NextRegistry]_vars

----------------------------------------------------------------------------
(* The supervisor's reader of a worker's stdout *)

\* the mock worker: print("Mock agent started"), print() and
\* print(f"Received from server: {line}"), whose line may itself hold the prefix
PlainLines == {<<"a">>, <<>>, <<"a", Prefix, "{", "}">>}

\* print(f"@@MESSAGE@@{message_json}", flush=True): what the worker meant is
\* kept beside the line it wrote
Framed(message_type, payload, now) ==
    [line |-> <<Prefix>> \o message_json(message_type, payload, now),
     framed |-> TRUE, type |-> message_type, payload |-> payload]
Plain(text) ==
    [line |-> text, framed |-> FALSE, type |-> Raw, payload |-> Obj(<<>>)]

\* decoding: a line is a message when it begins with the prefix and the rest
\* is a JSON object with the fields type and payload
Decoded(line) ==
    LET message == json_loads(Tail(line))
    IN  IF line = <<>> \/ Head(line) # Prefix THEN Skipped("output")
        ELSE IF ~message.ok \/ message.val.tag # "obj" THEN Skipped("malformed")
        ELSE IF ~Has(message.val.fields, <<"type">>) \/ ~Has(message.val.fields, <<"payload">>)
             THEN Skipped("invalid")
        ELSE IF Get(message.val.fields, <<"type">>).tag # "str"
                  \/ Get(message.val.fields, <<"payload">>).tag # "obj"
             THEN Skipped("invalid")
             ELSE [kind |-> "message",
                   type |-> Get(message.val.fields, <<"type">>).s,
                   payload |-> Get(message.val.fields, <<"payload">>)]

\* variant of Invocations: only the callback registered first is called
InvocationsFirst(list, n, kind, arg) ==
    IF list = <<>> THEN <<>>
    ELSE <<[line |-> n, kind |-> kind, callback |-> list[1], arg |-> arg]>>

\* the calls one list of callbacks receives for line n, in registration order
Invocations(list, n, kind, arg) ==
    [k \in 1 .. Len(list) |-> [line |-> n, kind |-> kind, callback |-> list[k], arg |-> arg]]

\* dispatch of line n: a message goes to the callbacks of its type with its
\* payload (and is dropped when its type has none); every other line goes
\* to the raw-output callbacks as it is
Dispatched(handlers, line, n) ==
    LET message == Decoded(line)
    IN  IF message.kind = "message"
        THEN IF \E type \in WorkerTypes : message.type = <<type>>
             THEN LET type == CHOOSE t \in WorkerTypes : message.type = <<t>>
                  IN  Invocations(handlers[type], n, type, message.payload)
             ELSE <<>>
        ELSE Invocations(handlers[Raw], n, Raw, Str(line))

\* add_chat_callback, add_step_update_callback, add_narrative_callback and
\* add_output_callback
AddCallback(kind, callback) ==
    /\ Len(registered[Raw]) + Len(registered["agent_chat_message"])
         + Len(registered["step_update"]) + Len(registered["agent_narrative"]) < MaxCallbacks
    /\ registered' = [registered EXCEPT ![kind] = Append(@, callback)]
    /\ UNCHANGED <<store, channel, supervision, schema, entry, tree, registry,
                   emitted, consumed, dispatched>>

\* the worker calls send_message
WorkerSend(message_type, payload) ==
    /\ Len(emitted) < MaxEmitted
    /\ emitted' = Append(emitted, Framed(message_type, payload, clock))
    /\ UNCHANGED <<store, channel, supervision, schema, entry, tree, registry,
                   consumed, registered, dispatched>>

\* the worker prints a line of its log
WorkerPrint(text) ==
    /\ Len(emitted) < MaxEmitted
    /\ emitted' = Append(emitted, Plain(text))
    /\ UNCHANGED <<store, channel, supervision, schema, entry, tree, registry,
                   consumed, registered, dispatched>>

\* the reader takes the next line of the worker's stdout and dispatches it
StreamOutput ==
    /\ consumed < Len(emitted)
    /\ consumed' = consumed + 1
    /\ dispatched' = dispatched \o Dispatched(registered, emitted[consumed + 1].line, consumed + 1)
    /\ UNCHANGED <<store, channel, supervision, schema, entry, tree, registry,
                   emitted, registered>>

InitInbound == Init

NextInbound ==
    \/ \E kind \in Kinds : \E callback \in Callbacks : AddCallback(kind, callback)
    \/ \E type \in WorkerTypes : \E payload \in Payloads : WorkerSend(type, payload)
    \/ \E text \in PlainLines : WorkerPrint(text)
    \/ StreamOutput

SpecInbound == InitInbound /\ [][NextInbound]_vars

----------------------------------------------------------------------------
(* Claims about the claim protocol *)

Claimed(f) == {i \in DOMAIN f : f[i].in_progress}

AllReturned(op) == \A p \in Agents : returned[p].op = op

Least(x, y) == IF x <= y THEN x ELSE y

\* C1: N concurrent claimNext calls with distinct owners against M incomplete,
\* unclaimed, unowned items: no two callers are returned the same item id, and
\* once all calls have finished exactly min(N, M) items are claimed, each with
\* a different owner.
C1_ClaimNextExclusive ==
    AllReturned("claim_next") =>
        /\ \A p, q \in Agents :
              p # q /\ returned[p].kind = "ok" /\ returned[q].kind = "ok"
                  => returned[p].id # returned[q].id
        /\ Cardinality(Claimed(features)) =
              Least(Cardinality(Agents), Cardinality(DOMAIN features))
        /\ \A i, j \in Claimed(features) :
              i # j => features[i].assigned_agent_id # features[j].assigned_agent_id

\* C2: in every reachable state no item is claimed (in_progress) and
\* completed (passes) at the same time.
C2_ClaimedNotCompleted ==
    \A i \in DOMAIN features : ~(features[i].in_progress /\ features[i].passes)

\* C3: in every state reached when a claim-protocol operation has committed,
\* every item with an owner (assigned_agent_id set) is claimed (in_progress).
C3_OwnerImpliesClaimed ==
    \A i \in DOMAIN features :
        features[i].assigned_agent_id # Null => features[i].in_progress

\* (priority, id) of row i is lowest in S
Lowest(f, S, i) ==
    /\ i \in S
    /\ \A j \in S \ {i} :
          \/ f[i].priority < f[j].priority
          \/ f[i].priority = f[j].priority /\ i < j

\* the commit of a call op that stopped before it changes no other row and
\* writes nothing to its row but in_progress = TRUE and assigned_agent_id = p
CommitOnlyClaims(op) ==
    \A p \in Agents :
        pc[p] = "flush" /\ pend[p].op = op /\ pc'[p] = "idle" =>
            /\ DOMAIN features' = DOMAIN features
            /\ \A j \in DOMAIN features :
                  IF j # pend[p].work.id THEN features'[j] = features[j]
                  ELSE /\ features'[j].priority = features[j].priority
                       /\ features'[j].passes = features[j].passes
                       /\ features'[j].in_progress \in {features[j].in_progress, TRUE}
                       /\ features'[j].assigned_agent_id \in {features[j].assigned_agent_id, p}

\* the table after a claim of row i by owner
ClaimedBy(f, i, owner) ==
    [f EXCEPT ![i].in_progress = TRUE, ![i].assigned_agent_id = owner]

\* C4 as stated: claimNext(owner) selects exactly the incomplete item with the
\* lowest priority (tie-break: lowest id) whose owner is null or equals owner,
\* sets claimed=true and owner=owner on that item only, and returns
\* NotAvailable only when no such item exists.
C4_ClaimNextAsStated ==
    \A owner \in Agents :
        LET w == feature_claim_next(features, owner)
            cand == {i \in DOMAIN features :
                        /\ ~features[i].passes
                        /\ features[i].assigned_agent_id \in {Null, owner}}
        IN  IF cand = {} THEN w = Returns("not_available", 0)
            ELSE /\ w.kind = "update"
                 /\ Lowest(features, cand, w.id)
                 /\ Flushed(features, w) = ClaimedBy(features, w.id, owner)

\* C4 amended, selection and uninterrupted effect: the candidates are the
\* incomplete items that are unclaimed with owner null, or whose owner equals
\* owner; the lowest (priority, id) of them is claimed and nothing else
\* changes; NotAvailable exactly when there is no candidate.
C4_Selects ==
    \A owner \in Agents :
        LET w == feature_claim_next(features, owner)
            cand == {i \in DOMAIN features :
                        /\ ~features[i].passes
                        /\ \/ ~features[i].in_progress /\ features[i].assigned_agent_id = Null
                           \/ features[i].assigned_agent_id = owner}
        IN  IF cand = {} THEN w = Returns("not_available", 0)
            ELSE /\ w.kind = "update"
                 /\ Lowest(features, cand, w.id)
                 /\ Flushed(features, w) = ClaimedBy(features, w.id, owner)

\* C4 amended: C4_Selects in every state, and the commit of a claimNext that
\* was overtaken by other commits still writes nothing but the claim of its
\* item.
C4_ClaimNext == []C4_Selects /\ [][CommitOnlyClaims("claim_next")]_vars

\* C4 witness: a claimNext in flight has passed over a lower-ordered
\* incomplete item that is claimed with owner null.
C4_Witness ==
    \E p \in Agents :
        /\ pc[p] = "flush"
        /\ pend[p].op = "claim_next"
        /\ \E i \in DOMAIN features :
              /\ ~features[i].passes
              /\ features[i].in_progress
              /\ features[i].assigned_agent_id = Null
              /\ pend[p].work.id \in DOMAIN features \ {i}
              /\ Lowest(features, {i, pend[p].work.id}, i)

\* C5: markClaimed(id, a) and markClaimed(id, b), a # b, concurrently on the
\* same unclaimed item: at most one returns success, the other is reported
\* Conflict, and the stored owner is the owner of the call that succeeded.
C5_MarkClaimedRace ==
    \A p, q \in Agents :
        /\ p # q
        /\ returned[p].op = "mark_in_progress"
        /\ returned[q].op = "mark_in_progress"
        /\ returned[p].id = returned[q].id
        /\ returned[p].kind = "ok"
        => /\ returned[q].kind = "conflict"
           /\ features[returned[p].id].assigned_agent_id = p

\* C6: two agents with distinct ids calling feature_get_next concurrently are
\* never both handed the same feature.
C6_GetNextExclusive ==
    \A p, q \in Agents :
        /\ p # q
        /\ returned[p].op = "get_next" /\ returned[p].kind = "ok"
        /\ returned[q].op = "get_next" /\ returned[q].kind = "ok"
        => returned[p].id # returned[q].id

\* the item a feature_get_next call hands out (0: none)
Picked(w) == IF w.kind = "return" /\ w.res # "ok" THEN 0 ELSE w.id

C8_GetNextAsStated ==
    \A agent_id \in Agents \cup {NoAgent} :
        Flushed(features, feature_get_next(features, agent_id)) = features

\* C8 amended, uninterrupted effect: without an agent id the call stages no
\* write; with one it changes nothing, or claims the item it returns, which
\* was not claimed.
C8_Frame ==
    /\ feature_get_next(features, NoAgent).kind = "return"
    /\ \A agent_id \in Agents :
          LET w == feature_get_next(features, agent_id)
          IN  \/ w.kind = "return"
              \/ /\ w.kind = "update"
                 /\ ~features[w.id].in_progress
                 /\ Flushed(features, w) = ClaimedBy(features, w.id, agent_id)

\* C8 amended: C8_Frame in every state, and the commit of a getNext that was
\* overtaken by other commits writes nothing but the claim of its item.
C8_GetNextReadOnly == []C8_Frame /\ [][CommitOnlyClaims("get_next")]_vars

\* C8 witness: a getNext with an agent id is in flight with a claim to write
\* while the peek variant would return an item.
C8_Witness ==
    \E p \in Agents :
        /\ pc[p] = "flush"
        /\ pend[p].op = "get_next"
        /\ DOMAIN pend[p].work.set = {"in_progress", "assigned_agent_id"}
        /\ feature_get_next(features, NoAgent).res = "ok"

\* C9: completed is terminal: once an item has completed=true nothing sets it
\* back to false, and no later claimNext, getNext or markClaimed sets its
\* claimed or owner fields.
C9_CompletedTerminal ==
    [][\A i \in DOMAIN features \cap DOMAIN features' :
          features[i].passes =>
              /\ features'[i].passes
              /\ features'[i].in_progress => features[i].in_progress
              /\ features'[i].assigned_agent_id \in {Null, features[i].assigned_agent_id}]_vars

\* C10 as stated: markClaimed(id, owner) returns Conflict whenever the item is
\* already claimed by a different owner and then leaves claimed and owner
\* unchanged; NotFound for an unknown id; otherwise it sets claimed=true and
\* owner=owner.
C10_MarkClaimedAsStated ==
    \A i \in Ids, owner \in Agents :
        LET w == feature_mark_in_progress(features, i, owner)
        IN  IF i \notin DOMAIN features THEN w = Returns("not_found", i)
            ELSE IF /\ features[i].in_progress
                    /\ features[i].assigned_agent_id \notin {Null, owner}
                 THEN w = Returns("conflict", i)
                 ELSE Flushed(features, w) = ClaimedBy(features, i, owner)

\* C10 amended, decision and uninterrupted effect: Conflict also for a
\* completed item.
C10_Decides ==
    \A i \in Ids, owner \in Agents :
        LET w == feature_mark_in_progress(features, i, owner)
        IN  IF i \notin DOMAIN features THEN w = Returns("not_found", i)
            ELSE IF \/ features[i].passes
                    \/ /\ features[i].in_progress
                       /\ features[i].assigned_agent_id \notin {Null, owner}
                 THEN w = Returns("conflict", i)
                 ELSE Flushed(features, w) = ClaimedBy(features, i, owner)

\* C10 amended: C10_Decides in every state, and the commit of a markClaimed
\* that was overtaken by other commits writes nothing but the claim of its
\* item.
C10_MarkClaimed == []C10_Decides /\ [][CommitOnlyClaims("mark_in_progress")]_vars

\* C10 witness: markClaimed is refused on a completed item nobody has claimed,
\* while another markClaimed is in flight.
C10_Witness ==
    \E i \in DOMAIN features, p \in Agents :
        /\ features[i].passes
        /\ ~features[i].in_progress
        /\ feature_mark_in_progress(features, i, p) = Returns("conflict", i)
        /\ \E q \in Agents : pc[q] = "flush" /\ pend[q].op = "mark_in_progress"

----------------------------------------------------------------------------
(* Claims about release, completion, skip, the catalog and step progress *)

C12_Complete ==
    \A i \in Ids :
        LET w == feature_mark_passing(features, i)
        IN  IF i \notin DOMAIN features THEN w = Returns("not_found", i)
            ELSE /\ Outcome(features, "mark_passing", w).kind = "ok"
                 /\ Flushed(features, w) =
                       [features EXCEPT ![i].passes = TRUE,
                                        ![i].in_progress = FALSE,
                                        ![i].assigned_agent_id = Null]

\* C12 witness: a complete is in flight on an item that an agent other than
\* the caller holds.
C12_Witness ==
    \E p \in Agents :
        /\ pc[p] = "flush"
        /\ pend[p].op = "mark_passing"
        /\ pend[p].work.id \in DOMAIN features
        /\ features[pend[p].work.id].in_progress
        /\ features[pend[p].work.id].assigned_agent_id \in Agents \ {p}

\* C13: skip(id) on an incomplete item sets its priority strictly above the
\* maximum priority of all items before the call and clears claimed, so the
\* item orders after every other item; skip(id) on a completed item returns
\* Conflict and changes no field of any item.
C13_Skip ==
    \A i \in DOMAIN features :
        LET w == feature_skip(features, i)
            after == Flushed(features, w)
        IN  IF features[i].passes
            THEN w = Returns("conflict", i) /\ after = features
            ELSE /\ Outcome(features, "skip", w).kind = "ok"
                 /\ \A j \in DOMAIN features : after[i].priority > features[j].priority
                 /\ ~after[i].in_progress
                 /\ \A j \in DOMAIN features \ {i} :
                       after[j] = features[j] /\ Before(after, j, i)

\* C13 witness: a skip is in flight on a claimed item that is not the last in
\* the order, and a completed item exists.
C13_Witness ==
    \E p \in Agents, j \in DOMAIN features :
        /\ pc[p] = "flush"
        /\ pend[p].op = "skip"
        /\ pend[p].work.id \in DOMAIN features \ {j}
        /\ features[pend[p].work.id].in_progress
        /\ features[pend[p].work.id].priority < features[j].priority
        /\ features[j].passes

\* the largest priority in the table, 0 for an empty one
MaxExisting(f) == IF DOMAIN f = {} THEN 0 ELSE Max({f[i].priority : i \in DOMAIN f})

\* the row the claim gives the i-th item (0-based) of a batch
C14_Row(f, item, i, label) ==
    [priority |-> MaxExisting(f) + 1 + i - (IF item.type = "bug" THEN 500 ELSE 0),
     passes |-> FALSE, in_progress |-> FALSE, assigned_agent_id |-> Null,
     steps |-> item.steps, label |-> label]

\* C14: create(batch, label) gives the i-th item (0-based) the priority
\* (max priority existing before the call) + 1 + i, or 1 + i on an empty
\* store, minus 500 when the item is a bug; every created item starts
\* incomplete, unclaimed and unowned with the given label; the returned count
\* is the batch length; the single create does the same for one item without
\* a label.
C14_Create ==
    /\ \A n \in 1 .. MaxBatch, label \in Labels :
          \A batch \in [1 .. n -> {item \in Items : item.valid}] :
              LET w == feature_create_bulk(features, batch, label)
                  after == Flushed(features, w)
                  base == IF DOMAIN features = {} THEN 0 ELSE Max(DOMAIN features)
              IN  /\ Outcome(features, "create_bulk", w) =
                        [op |-> "create_bulk", kind |-> "ok", id |-> n]
                  /\ DOMAIN after = DOMAIN features \cup (base + 1 .. base + n)
                  /\ \A i \in DOMAIN features : after[i] = features[i]
                  /\ \A k \in 1 .. n :
                        after[base + k] = C14_Row(features, batch[k], k - 1, label)
    /\ \A type \in Types, steps \in 1 .. MaxSteps :
          LET w == feature_create(features, type, steps)
              after == Flushed(features, w)
              new == Outcome(features, "create", w).id
          IN  /\ DOMAIN after = DOMAIN features \cup {new}
              /\ new \notin DOMAIN features
              /\ \A i \in DOMAIN features : after[i] = features[i]
              /\ after[new] = C14_Row(features, [type |-> type, steps |-> steps], 0, Null)

\* C14 witness: the store holds a labelled boosted bug next to an item that
\* is not boosted.
C14_Witness ==
    \E i, j \in DOMAIN features :
        /\ features[i].priority < 1
        /\ features[i].label = "wave"
        /\ features[j].priority >= 1

\* C15: every item of the store has exactly one StepRecord for each index
\* 0 .. len(steps)-1, so stepStart on those indices does not return NotFound
\* and progress(id).totalSteps equals len(steps).
C15_StepsCreated ==
    \A i \in DOMAIN features :
        /\ \A k \in 0 .. features[i].steps - 1 :
              /\ <<i, k>> \in DOMAIN step_progress
              /\ feature_step_mark_started(step_progress, i, k, clock).res # "not_found"
        /\ feature_get_progress_details(features, step_progress, i).total_steps
              = features[i].steps

\* C16: markStarted sets startedAt only when it is not yet set: a startedAt
\* that is set keeps its value (first call wins).
C16_FirstStartWins ==
    [][\A key \in DOMAIN step_progress \cap DOMAIN step_progress' :
          step_progress[key].started_at # NoTime =>
              step_progress'[key].started_at = step_progress[key].started_at]_vars

\* derived status of a StepRecord: 0 pending, 1 in-progress, 2 done
Status(row) ==
    IF row.completed_at # NoTime \/ row.completed THEN 2
    ELSE IF row.started_at # NoTime THEN 1 ELSE 0

\* C17: the derived status of a StepRecord only moves forward along
\* pending -> in-progress -> done under any sequence of markStarted and
\* markCompleted calls.
C17_StatusForward ==
    [][\A key \in DOMAIN step_progress \cap DOMAIN step_progress' :
          Status(step_progress'[key]) >= Status(step_progress[key])]_vars

\* C17 witness: a step that is done was started (again) after it was
\* completed, next to a step that is in progress.
C17_Witness ==
    \E key, other \in DOMAIN step_progress :
        /\ step_progress[key].completed
        /\ step_progress[key].started_at > step_progress[key].completed_at
        /\ Status(step_progress[other]) = 1

\* C18: an item claimed with owner a stays claimed with owner a through a
\* worker's stop and through every operation, until a release or a complete
\* of that item (which leave it unclaimed and unowned, or completed).
C18_ClaimSurvives ==
    [][\A i \in DOMAIN features \cap DOMAIN features' :
          /\ ~features[i].passes
          /\ features[i].in_progress
          /\ features[i].assigned_agent_id \in Agents
          => \/ /\ features'[i].in_progress
                /\ features'[i].assigned_agent_id = features[i].assigned_agent_id
             \/ /\ ~features'[i].in_progress
                /\ features'[i].assigned_agent_id = Null]_vars

\* C19: a create(batch) call that returns an error because the item at
\* index i lacks a required field leaves the store exactly as before the
\* call: none of the items 0 .. i-1 is persisted.
C19_CreateAllOrNothing ==
    \A n \in 1 .. MaxBatch, label \in Labels :
        \A batch \in [1 .. n -> Items] :
            LET w == feature_create_bulk(features, batch, label)
            IN  IF \A k \in 1 .. n : batch[k].valid
                THEN Outcome(features, "create_bulk", w).kind = "ok"
                ELSE /\ Outcome(features, "create_bulk", w).kind = "error"
                     /\ Flushed(features, w) = features
                     /\ StepFlushed(step_progress, w) = step_progress

\* C19 witness: on a store that holds an item of an earlier labelled batch,
\* a batch fails at its second item after the first was added to the session.
C19_Witness ==
    /\ \E i \in DOMAIN features : features[i].label = "wave"
    /\ \E batch \in [1 .. 2 -> Items] :
          LET w == feature_create_bulk(features, batch, "wave")
          IN  w.kind = "return" /\ w.id = 1 /\ Len(w.rows) = 1

\* C20: delete(id) cascades: after it no StepRecord with that item id
\* remains in the store, and no other item or StepRecord is removed.
C20_DeleteCascades ==
    [][\A i \in DOMAIN features \ DOMAIN features' :
          /\ \A key \in DOMAIN step_progress' : key[1] # i
          /\ \A key \in DOMAIN step_progress : key[1] # i => key \in DOMAIN step_progress'
          /\ DOMAIN features' = DOMAIN features \ {i}]_vars

\* C21: item ids are never reused: when an item is deleted and an item is
\* created next, the id given to the new item is none of the ids that were
\* assigned before, the id of the deleted item included (also when the
\* deleted item had the highest id).
C21_IdsNeverReused ==
    \A i \in DOMAIN features : \A type \in Types :
        LET deleted == Flushed(features, feature_delete(features, i))
            created == Flushed(deleted, feature_create(deleted, type, 1))
        IN  (DOMAIN created \ DOMAIN deleted) \cap DOMAIN features = {}

\* C22: once step_progress rows exist for an item, no operation changes the
\* length of its steps list, and the indices of its rows are exactly
\* 0 .. len(steps) - 1.
C22_StepsFrozen ==
    [][\A i \in DOMAIN features \cap DOMAIN features' :
          (\E key \in DOMAIN step_progress : key[1] = i)
          => /\ features'[i].steps = features[i].steps
             /\ {key[2] : key \in {x \in DOMAIN step_progress' : x[1] = i}}
                    = 0 .. features'[i].steps - 1]_vars

\* the backlog is a batch of n items created with default priorities
DefaultBatch(f, n) == DOMAIN f = 1 .. n /\ \A i \in 1 .. n : f[i].priority = i

\* C23 (counts): stats() reports the counts of the current state: total is
\* the number of items, completed the number with completed = true, claimed
\* the number with claimed = true; after the scenario (3 items created,
\* claimNext("a") returned item 1, claimNext("b") item 2, item 1 completed)
\* it reports completed = 1 and total = 3.
C23_Counts ==
    LET stats == feature_get_stats(features)
        all == DOMAIN features
    IN  /\ stats.total = Cardinality(all)
        /\ stats.passing = Cardinality(all) - Cardinality({i \in all : ~features[i].passes})
        /\ stats.in_progress =
               Cardinality(all) - Cardinality({i \in all : ~features[i].in_progress})
        /\ /\ DefaultBatch(features, 3)
           /\ {i \in all : features[i].passes} = {1}
           => stats.passing = 1 /\ stats.total = 3

\* C23 (claims of the scenario): on a batch created with default
\* priorities, claimNext of an owner that holds nothing returns the
\* lowest-id item that is neither claimed nor completed, and makes the
\* caller its owner.
C23_ClaimsLowest ==
    \A p \in Agents :
        LET open == {i \in DOMAIN features :
                       ~features[i].passes /\ ~features[i].in_progress}
            w == feature_claim_next(features, p)
        IN  /\ \E n \in 1 .. MaxScenario : DefaultBatch(features, n)
            /\ \A i \in DOMAIN features : features[i].assigned_agent_id # p
            /\ open # {}
            => \E i \in open :
                  /\ \A j \in open : i <= j
                  /\ Outcome(features, "claim_next", w) =
                         [op |-> "claim_next", kind |-> "ok", id |-> i]
                  /\ Flushed(features, w)[i].in_progress
                  /\ Flushed(features, w)[i].assigned_agent_id = p
                  /\ \A j \in DOMAIN features \ {i} : Flushed(features, w)[j] = features[j]

\* C23: stats() reports the counts of the current state, and in the scenario
\* create 3 items, claimNext("a"), claimNext("b"), complete(first), the
\* claims returned the lowest-id unclaimed items and stats() reports
\* completed = 1, total = 3.
C23_Stats == C23_Counts /\ C23_ClaimsLowest

\* C23 witness: the state after the scenario: three items with default
\* priorities, "b" was answered item 2 after "a" had claimed item 1, "a"
\* completed item 1, item 2 is claimed by "b", and stats() counts
\* 1 completed, 1 claimed, 3 in total.
C23_Witness ==
    /\ DefaultBatch(features, 3)
    /\ features[1].passes /\ ~features[1].in_progress
    /\ features[2].in_progress /\ features[2].assigned_agent_id = "b"
    /\ ~features[3].passes /\ ~features[3].in_progress
    /\ returned["b"] = [op |-> "claim_next", kind |-> "ok", id |-> 2]
    /\ returned["a"] = [op |-> "mark_passing", kind |-> "ok", id |-> 1]
    /\ feature_get_stats(features) =
           [passing |-> 1, in_progress |-> 1, total |-> 3, percentage |-> 333]

\* C24: for every message type and payload, the line send_message prints for
\* (type, payload) is read by the listener as a message of that type with an
\* equal payload.
C24_RoundTrip ==
    \A c \in Callers :
        senders[c].pc = "end"
        => Handled(<<Prefix>> \o senders[c].json \o <<LF>>) =
              [kind |-> "message", type |-> <<senders[c].type>>,
               payload |-> senders[c].payload]

\* C24 witness: a caller has printed the text of a message whose payload
\* holds a newline (a quote, a backslash) that json.dumps had to escape.
C24_Witness ==
    \E c \in Callers, ch \in {LF, Quote, Backslash} :
        /\ senders[c].pc = "end"
        /\ senders[c].payload = Obj(<<[key |-> <<"content">>, val |-> Str(<<ch>>)]>>)
        /\ Len(senders[c].json) > Len(message_json(senders[c].type, Obj(<<>>), clock)) + 8

\* the calls made for line n, in the order they were made
Calls(log, n) ==
    LET made == SelectSeq(log, LAMBDA e : e.line = n)
    IN  [k \in 1 .. Len(made) |-> made[k].callback]

\* listener i returns from readline with the next line of stdin
Reads(i) ==
    /\ listeners[i].pc = "readline"
    /\ listeners'[i] # listeners[i]
    /\ offset' = offset + 1

\* C25 (no callback): no callback is ever called for a line that has the
\* sentinel prefix and then invalid JSON or JSON without type or payload.
C25_NoCallback ==
    \A k \in 1 .. Len(invoked) : stdin[invoked[k].line] \notin Malformed

\* C25 (reader goes on): the listener that reads such a line calls nothing
\* and goes on with its loop, and a well-formed line that follows a
\* malformed one is dispatched to the callbacks of its type.
C25_GoesOn ==
    \A i \in Listeners :
        Reads(i) =>
            /\ stdin[offset + 1] \in Malformed
               => invoked' = invoked /\ listeners'[i].pc = "while"
            /\ /\ offset >= 1
               /\ stdin[offset] \in Malformed
               /\ \E t \in DOMAIN callbacks :
                     stdin[offset + 1] = <<Prefix>> \o message_json(t, Obj(<<>>), 1) \o <<LF>>
               => /\ listeners'[i].pc = "callbacks"
                  /\ listeners'[i].line = offset + 1
                  /\ listeners'[i].k = 1

\* C25: a line with the sentinel prefix whose remainder is not valid JSON, or
\* is JSON lacking type or payload, causes no callback invocation and does
\* not end the reader: a well-formed line after it is still dispatched.
C25_Malformed == []C25_NoCallback /\ [][C25_GoesOn]_vars

\* C25 witness: the first line was malformed, the second a frame, and a
\* callback was called for the second line and none for the first.
C25_Witness ==
    /\ offset = 2
    /\ stdin[1] \in Malformed
    /\ stdin[2] \in Frames
    /\ Calls(invoked, 1) = <<>>
    /\ Calls(invoked, 2) # <<>>

\* C26 (in order): while a listener goes through the callbacks of a message,
\* the calls made for it so far are the first callbacks registered for its
\* type, each once, in registration order, whether or not one of them raised.
C26_InOrder ==
    \A i \in Listeners :
        listeners[i].pc = "callbacks"
        => /\ listeners[i].k - 1 <= Len(callbacks[listeners[i].type])
           /\ Calls(invoked, listeners[i].line) =
                 SubSeq(callbacks[listeners[i].type], 1, listeners[i].k - 1)

\* C26 (all of them): a listener is done with a message only when every
\* callback registered for its type was called; calls are made only for a
\* message a listener is going through; a message whose type has no callback
\* list is dropped and the listener goes on.
C26_All ==
    /\ \A i \in Listeners :
          listeners[i].pc = "callbacks" /\ listeners'[i].pc # "callbacks"
          => /\ Calls(invoked', listeners[i].line) = callbacks[listeners[i].type]
             /\ listeners'[i].pc = "while"
    /\ \A n \in 1 .. Len(stdin) :
          Calls(invoked', n) # Calls(invoked, n)
          => \E i \in Listeners : listeners[i].pc = "callbacks" /\ listeners[i].line = n
    /\ \A i \in Listeners :
          /\ Reads(i)
          /\ \E t \in MsgTypes \ DOMAIN callbacks :
                stdin[offset + 1] = <<Prefix>> \o message_json(t, Obj(<<>>), 1) \o <<LF>>
          => invoked' = invoked /\ listeners'[i].pc = "while"

\* C26: for each decoded message every callback registered for its type is
\* invoked exactly once, in registration order; a callback that raises
\* prevents neither the callbacks after it nor the following lines; a
\* message of a type with no callback is dropped without error.
C26_Dispatch == []C26_InOrder /\ [][C26_All]_vars

\* C26 witness: for the first line the raising callback and then the one
\* registered after it were called, and a callback was called for the
\* second line too.
C26_Witness ==
    /\ Calls(invoked, 1) = <<"raiser", "handler">>
    /\ Calls(invoked, 2) # <<>>

\* C27: messages are handled in the order they were written: every callback
\* invocation for a line comes before any invocation for a line written
\* after it, after any sequence of start and stop calls.
C27_WrittenOrder ==
    \A a \in 1 .. Len(invoked), b \in 1 .. Len(invoked) :
        a < b => invoked[a].line <= invoked[b].line

\* the lines of a text that are ended by a newline
RECURSIVE LinesOf(_, _)
LinesOf(text, line) ==
    IF text = <<>> THEN {}
    ELSE IF Head(text) = LF THEN {line} \cup LinesOf(Tail(text), <<>>)
    ELSE LinesOf(Tail(text), Append(line, Head(text)))

\* C28: with concurrent callers of send_message the output stream is a
\* sequence of whole lines, each exactly one @@MESSAGE@@ frame followed by
\* its newline; two messages never share a line.
C28_WholeLines ==
    \A line \in LinesOf(stdout, <<>>) :
        \E t \in MsgTypes, p \in Payloads, now \in 1 .. MaxClock :
            line = <<Prefix>> \o message_json(t, p, now)

\* listener thread i is in its loop
Alive(i) == listeners[i].pc \notin {"none", "done"}

\* C29: the listener loop eventually exits after the input stream reached
\* end-of-file, and after stop() was called (and start() is not called
\* again), even when no further line arrives.
C29_Terminates ==
    \A i \in Listeners :
        /\ (Alive(i) /\ eof) ~> ~Alive(i)
        /\ <>[](~running) => <>[](~Alive(i))

\* C30 (edges): the state of a worker changes only along Idle -> Starting ->
\* Running -> Stopping -> Stopped and Running -> Crashed; a start that
\* reports a failed spawn leaves the worker Idle with no process; a start on
\* a Running worker reports AlreadyRunning and spawns nothing; a send that
\* is answered Ok found the worker Running.
C30_Moves ==
    \A w \in Workers :
        /\ status'[w] # status[w] => <<status[w], status'[w]>> \in Edges
        /\ result'[w] # result[w] /\ result'[w] = [op |-> "start", value |-> "error"]
           => status[w] = "idle" /\ status'[w] = "idle" /\ process'[w] = process[w]
        /\ result'[w] # result[w] /\ result'[w].op = "start" /\ status[w] = "running"
           => /\ result'[w].value = "already_running"
              /\ status'[w] = "running"
              /\ process'[w] = process[w]
        /\ result'[w] # result[w] /\ result'[w].op = "send"
           => (result'[w].value = "ok" <=> status[w] = "running")

\* C30 (one process): a worker has a process exactly while it is Starting,
\* Running or Stopping, and never more than one.
C30_OneProcess ==
    \A w \in Workers :
        process[w] = IF status[w] \in {"starting", "running", "stopping"} THEN 1 ELSE 0

\* C30: the supervisor's per-worker state only moves along the edges
\* Idle -> Starting -> Running -> Stopping -> Stopped and Running -> Crashed;
\* a failed spawn leaves the state Idle, start on a Running worker returns
\* AlreadyRunning without a second process, and send succeeds only while
\* the state is Running.
C30_Lifecycle == []C30_OneProcess /\ [][C30_Moves]_vars

\* C30 witness: one worker was run and stopped and a send to it was then
\* refused, the other crashed after a send to it had succeeded.
C30_Witness ==
    /\ status["w1"] = "stopped"
    /\ result["w1"] = [op |-> "send", value |-> "not_running"]
    /\ status["w2"] = "crashed"
    /\ result["w2"] = [op |-> "send", value |-> "ok"]

\* C40: at most one stdin listener thread of a communicator is alive at any
\* time, for any sequence of start() and stop() calls.
C40_OneListener == Cardinality({i \in Listeners : Alive(i)}) <= 1

\* the incomplete items that an owner holds claimed
Held(f, owner) ==
    {i \in DOMAIN f : ~f[i].passes /\ f[i].in_progress /\ f[i].assigned_agent_id = owner}

\* C36: no owner holds more than one claimed incomplete item at a time: a
\* claimNext by an owner that still holds an item gives that item again and
\* claims no second one.
C36_OneClaim == \A owner \in Agents : Cardinality(Held(features, owner)) <= 1

\* the flush of w changes the owner of some item of f from one agent to
\* another one
Transfers(f, w) ==
    \E i \in DOMAIN f \cap DOMAIN Flushed(f, w) :
        /\ f[i].assigned_agent_id # Null
        /\ Flushed(f, w)[i].assigned_agent_id # Null
        /\ Flushed(f, w)[i].assigned_agent_id # f[i].assigned_agent_id

\* C37: ownership is never transferred directly: no single operation, run
\* on its own against the store, changes an item's owner from one owner to
\* a different one; the owner is null in between.
C37_NoTransfer ==
    \A p \in Agents, g \in {NoAgent} \cup Agents, i \in Ids :
        /\ ~Transfers(features, feature_get_next(features, g))
        /\ ~Transfers(features, feature_claim_next(features, p))
        /\ ~Transfers(features, feature_mark_in_progress(features, i, g))
        /\ ~Transfers(features, feature_release(features, i, g))
        /\ ~Transfers(features, feature_clear_in_progress(features, i))
        /\ ~Transfers(features, feature_mark_passing(features, i))
        /\ ~Transfers(features, feature_skip(features, i))

\* C39: the progress details of an item partition its steps: after any
\* sequence of markStarted and markCompleted calls the completed, the
\* in-progress and the pending steps add up to the total.
C39_Partition ==
    \A i \in DOMAIN features :
        LET details == feature_get_progress_details(features, step_progress, i)
        IN  details.completed_steps + details.in_progress_steps + details.pending_steps
                = details.total_steps

\* C34 (populated): when a store that holds features and has no
\* step_progress table gets one, it then holds exactly one StepRecord per
\* (feature, step index), none started and none completed.
C34_Populates ==
    ("step_progress" \notin tables /\ features # <<>> /\ "step_progress" \in tables')
        => step_progress' = [key \in {k \in (DOMAIN features) \X (0 .. MaxSteps - 1) :
                                          k[2] < features[k[1]].steps} |-> StepRow]

\* C34 (idempotent): opening an opened store again changes nothing.
C34_Idempotent == create_database(create_database(Db)) = create_database(Db)

\* C34: create_database on a store that holds features but has no
\* step_progress table leaves exactly one StepRecord per (feature, step
\* index), all unstarted and uncompleted; opening it again adds no record.
C34_Migration == []C34_Idempotent /\ [][C34_Populates]_vars

\* every item of the backlog is completed and the last claimNext of every
\* worker returned NotAvailable
Drained ==
    /\ \A i \in DOMAIN features : features[i].passes
    /\ \A p \in Agents : returned[p] = [op |-> "claim_next", kind |-> "not_available", id |-> 0]

\* C38: the queue drains: when item creation has ended and every worker
\* keeps calling claimNext and then complete on the item it received, then
\* eventually every item is completed and claimNext returns NotAvailable to
\* every worker, for good.
C38_Drains == <>[]Drained

\* C38 witness: a backlog of MaxId items was drained.
C38_Witness == Drained /\ Cardinality(DOMAIN features) = MaxId

\* C33: the worker entry point ends with exit code 0 on a graceful stop and
\* with a non-zero exit code when the project directory or the worktree
\* directory does not exist, and in that case the agent loop was never
\* started.
C33_ExitCode ==
    \A w \in Workers :
        runner[w].pc = "exited" =>
            /\ runner[w].cause \in {"returned", "interrupted"} => runner[w].code = 0
            /\ runner[w].cause \in {"no_project_dir", "no_worktree_dir"} =>
                  runner[w].code # 0 /\ ~runner[w].started

\* process c was spawned by p or by a descendant of p
RECURSIVE Descends(_, _, _)
Descends(ps, c, p) ==
    \/ ps[c].parent = p
    \/ ps[c].parent # 0 /\ Descends(ps, ps[c].parent, p)

\* C31: killing a worker removes its whole process tree: when the call
\* returns successfully, neither the worker nor any descendant it spawned,
\* a child started while the call was running included, is still alive.
C31_TreeGone ==
    [][(killer.pc # "done" /\ killer'.pc = "done" /\ killer'.response = "success")
          => \A p \in Pids :
                (p = killer'.pid \/ Descends(procs', p, killer'.pid))
                    => procs'[p].state # "running"]_vars

\* session id is registered, or on the list of a cleanup that has yet to
\* close it
Kept(id) ==
    \/ \E project \in Projects : sessions[project] = id
    \/ id \in cleanup.todo

\* C35: under any interleaving of create, remove, cleanup and a session's
\* own start(), a registered session is registered under its own project
\* only, and every session that was replaced or removed ends closed: no
\* session outside the registry keeps an entered client (one whose
\* __aexit__ is under way is being closed).
C35_NoLeak ==
    /\ \A project \in Projects :
          sessions[project] # NoSession => objects[sessions[project]].project = project
    /\ \A id \in SessionIds :
          (objects[id].open /\ ~Kept(id)) => objects[id].exiting

----------------------------------------------------------------------------
(* Claims about the supervisor's reader *)

\* the calls made for the line the reader has just taken
Made == SubSeq(dispatched', Len(dispatched) + 1, Len(dispatched'))

ofType(call) == call.kind \in WorkerTypes
ofRaw(call) == call.kind = Raw

C32_Line ==
    consumed' = consumed + 1 =>
        LET n == consumed + 1
            sent == emitted[n]
            kind == IF sent.framed THEN sent.type ELSE Raw
            arg == IF sent.framed THEN sent.payload ELSE Str(sent.line)
            expected == [k \in 1 .. Len(registered[kind]) |->
                            [line |-> n, kind |-> kind,
                             callback |-> registered[kind][k], arg |-> arg]]
        IN  /\ SubSeq(dispatched', 1, Len(dispatched)) = dispatched
            /\ sent.framed => SelectSeq(Made, ofType) = expected
            /\ ~sent.framed => /\ SelectSeq(Made, ofRaw) = expected
                               /\ SelectSeq(Made, ofType) = <<>>

\* C32: every framed line a worker writes with one of the types
\* agent_chat_message, step_update and agent_narrative makes the reader call
\* each callback registered for that type exactly once, in registration order,
\* with the payload that was sent, and every line that does not begin with the
\* prefix is handed as it is to each raw-output callback and to no callback of
\* a type.
C32_Dispatch == [][C32_Line]_vars

\* a payload with text reached the callback of its type and a log line that
\* holds the prefix in its middle reached the raw-output callback
C32_Witness ==
    /\ \E k \in 1 .. Len(dispatched) :
          /\ dispatched[k].kind \in WorkerTypes
          /\ dispatched[k].arg = emitted[dispatched[k].line].payload
          /\ dispatched[k].arg.fields # <<>>
    /\ \E k \in 1 .. Len(dispatched) :
          /\ dispatched[k].kind = Raw
          /\ dispatched[k].arg = Str(<<"a", Prefix, "{", "}">>)

====
